---- MODULE Spec2Model ----
(***************************************************************************)
(* Tiered coupon validation engine of backend-challenge/internal/coupon:   *)
(* the Bloom-filter validator (Validator, lruCache, LoadFromFiles,         *)
(* buildBloomFilter, IsValid, searchFileForCoupon, GetStats),             *)
(* LoadFromURLs and IsValid of the map-based validator, and main of        *)
(* cmd/server up to the start of the HTTP server.                          *)
(*                                                                         *)
(* Strings are sequences of one-character strings, so that TrimSpace,      *)
(* ToUpper and len are computed and not assumed.  A Bloom filter is the    *)
(* set of its bits that are 1.  Each goroutine body that only reads        *)
(* immutable data (a file scan, a filter build) is one step; the point at  *)
(* which it observes its context as cancelled and the point at which the   *)
(* file system fails are chosen by the environment.                        *)
(***************************************************************************)
EXTENDS Integers, Sequences, FiniteSets, TLC

VARIABLES
    filePaths,      \* Validator.filePaths
    bloomFilters,   \* Validator.bloomFilters (a slot is nil or a filter)
    cache,          \* Validator.cache: [capacity, items, order]
    load,           \* the LoadFromFiles call in progress or last returned
    calls,          \* the IsValid calls, one record per caller
    nLoads,         \* LoadFromFiles calls made so far
    nLocked,        \* LoadFromFiles calls that took v.mu and assigned the fields
    nFailed,        \* of these, the ones that returned an error
    prev,           \* the last IsValid call of a sequential caller (SpecSeq)
    ops,            \* the calls made on the lruCache alone, oldest first (SpecCache)
    stats,          \* the GetStats call of a monitoring caller (SpecStats)
    couponSets,     \* map-based Validator.couponSets (SpecURLs)
    urlLoad,        \* the LoadFromURLs call in progress or last returned (SpecURLs)
    mcall,          \* the IsValid call of the map-based validator (SpecMap)
    main,           \* the process entry point (SpecMain)
    scan,           \* a run of searchFileForCoupon, record by record (SpecScan)
    lk,             \* v.mu, cache.mu and where each goroutine stands (SpecLocks)
    lru             \* an lruCache with its map of list elements (SpecElements)

vars == <<filePaths, bloomFilters, cache, load, calls, nLoads, nLocked, nFailed, prev,
          ops, stats, couponSets, urlLoad, mcall, main, scan, lk, lru>>

\* the variables that LoadFromFiles and IsValid do not touch
aux == <<ops, stats, couponSets, urlLoad, mcall, main, scan, lk, lru>>

(***************************** bounds **************************************)
NumCalls == 2           \* concurrent IsValid callers
MaxLoads == 1           \* LoadFromFiles calls in one behaviour
MaxElements == 5        \* list elements allocated by one lruCache
MaxReloads == 2         \* LoadFromFiles calls in one behaviour with a reload
CacheCapacity == 1      \* capacity of the cache of the model
MaxCapacity == 2        \* largest capacity of an lruCache exercised alone
MaxOps == 4             \* calls made on an lruCache exercised alone
MaxUrlLoads == 2        \* LoadFromURLs calls in one behaviour
FilterBits == 10        \* m, bits of a filter of the model
NumHashes == 2          \* k, hash functions of a filter of the model

(************************ program constants ********************************)
MinLen == 8
MaxLen == 10
MinFiles == 2
CheckEvery == 10000

Calls == 1..NumCalls

(****************************** strings ************************************)
UpperAlpha ==
    <<"A","B","C","D","E","F","G","H","I","J","K","L","M",
      "N","O","P","Q","R","S","T","U","V","W","X","Y","Z">>
LowerAlpha ==
    <<"a","b","c","d","e","f","g","h","i","j","k","l","m",
      "n","o","p","q","r","s","t","u","v","w","x","y","z">>
Digits == <<"0","1","2","3","4","5","6","7","8","9">>
Spaces == <<" ", "\t">>
CharTable == Spaces \o Digits \o UpperAlpha \o LowerAlpha

CharCode(ch) == CHOOSE i \in 1..Len(CharTable) : CharTable[i] = ch

IsSpace(ch) == \E i \in 1..Len(Spaces) : Spaces[i] = ch

UpperChar(ch) ==
    IF \E i \in 1..26 : LowerAlpha[i] = ch
    THEN UpperAlpha[CHOOSE i \in 1..26 : LowerAlpha[i] = ch]
    ELSE ch

LowerChar(ch) ==
    IF \E i \in 1..26 : UpperAlpha[i] = ch
    THEN LowerAlpha[CHOOSE i \in 1..26 : UpperAlpha[i] = ch]
    ELSE ch

\* faulty variant: the code is not upper-cased
ToUpperNot(s) == s

ToUpper(s) == [i \in 1..Len(s) |-> UpperChar(s[i])]

ToLower(s) == [i \in 1..Len(s) |-> LowerChar(s[i])]

RECURSIVE TrimLeft(_)
TrimLeft(s) ==
    IF s # <<>> /\ IsSpace(Head(s)) THEN TrimLeft(Tail(s)) ELSE s

RECURSIVE TrimRight(_)
TrimRight(s) ==
    IF s # <<>> /\ IsSpace(s[Len(s)])
    THEN TrimRight(SubSeq(s, 1, Len(s) - 1))
    ELSE s

TrimSpace(s) == TrimRight(TrimLeft(s))

Normalize(raw) == ToUpper(TrimSpace(raw))

LengthOK(code) == ~(Len(code) < MinLen \/ Len(code) > MaxLen)

(**************************** the data *************************************)
VALIDABC == <<"V","A","L","I","D","A","B","C">>
TESTCODE == <<"T","E","S","T","C","O","D","E">>
COUPON01 == <<"C","O","U","P","O","N","0","1">>
COUPON03 == <<"C","O","U","P","O","N","0","3">>
SPECIAL9 == <<"S","P","E","C","I","A","L","9">>
NOTEXIST == <<"N","O","T","E","X","I","S","T">>
SHORT == <<"S","H","O","R","T">>
TOOLONGCODE == <<"T","O","O","L","O","N","G","C","O","D","E">>

Pad(s) == <<" ">> \o s \o <<" ", "\t">>

\* what callers pass to IsValid
RawCodes ==
    { VALIDABC, TESTCODE, ToLower(TESTCODE), Pad(TESTCODE), COUPON01,
      NOTEXIST, SHORT, TOOLONGCODE }

\* the file system: path -> records
Files ==
    [ f1 |-> <<VALIDABC, TESTCODE, COUPON01>>,
      f2 |-> <<VALIDABC, Pad(TESTCODE), SPECIAL9>>,
      f3 |-> <<VALIDABC, SPECIAL9, <<>>, COUPON03>>,
      f4 |-> <<VALIDABC, ToLower(COUPON01), SHORT, VALIDABC>> ]

\* os.Stat(path) succeeds
Exists(path) == path \in DOMAIN Files

\* the records bufio.Scanner yields for a path (none when it cannot be opened)
Lines(path) == IF Exists(path) THEN Files[path] ELSE <<>>

\* what callers pass to LoadFromFiles
PathLists == { <<>>, <<"f1", "f2", "f3">>, <<"f1", "missing", "f3">> }

\* the trimmed records of a file
Records(path) == { TrimSpace(Lines(path)[i]) : i \in 1..Len(Lines(path)) }

\* in how many of the files of paths the code is a record
Occurrences(paths, code) ==
    Cardinality({ i \in 1..Len(paths) : code \in Records(paths[i]) })

Quorum(paths, code) == LengthOK(code) /\ Occurrences(paths, code) >= 2

\* a list of paths LoadFromFiles must refuse
BadPaths(paths) == Len(paths) = 0 \/ \E i \in 1..Len(paths) : paths[i] \notin DOMAIN Files

(************************** Bloom filter ***********************************)
\* location of the j-th hash of a key (bloom: baseHashes and location)
HashLoc(key, j) ==
    LET RECURSIVE Sum(_)
        Sum(i) == IF i = 0 THEN 0 ELSE (i + j) * CharCode(key[i]) + Sum(i - 1)
    IN  Sum(Len(key)) % FilterBits

HashLocs(key) == { HashLoc(key, j) : j \in 1..NumHashes }

\* bloom.NewWithEstimates: a filter with no bit set
NewFilter == [nil |-> FALSE, bits |-> {}]

\* a slot of make([]*bloom.BloomFilter, n) that was not assigned
NilFilter == [nil |-> TRUE, bits |-> {}]

\* filter.AddString(line)
AddString(filter, key) == [filter EXCEPT !.bits = @ \cup HashLocs(key)]

\* filter.TestString(code), on a filter that is not nil
TestString(filter, key) == HashLocs(key) \subseteq filter.bits

(***************************** lruCache ************************************)
\* newLRUCache(capacity): items is the key set of the map, order the list,
\* most recently used first
newLRUCache(capacity) == [capacity |-> capacity, items |-> {}, order |-> <<>>]

(***************************************************************************)
(* The same cache with its pointers.  A list element is a number, nil is  *)
(* 0; items maps a key to an element, order is the list of elements from  *)
(* front to back, value is the cacheEntry each element carries, next the  *)
(* element the next PushFront allocates.                                  *)
(***************************************************************************)
nil == 0

newElements(capacity) ==
    [capacity |-> capacity, items |-> <<>>, order |-> <<>>, value |-> <<>>, next |-> 1]

InList(order, elem) == \E i \in 1..Len(order) : order[i] = elem

\* container/list: Remove, MoveToFront (both leave the list alone when the
\* element is not in it), PushFront, Back
ListRemove(order, elem) ==
    LET keep(e) == e # elem
    IN  SelectSeq(order, keep)

ListMoveToFront(order, elem) ==
    IF InList(order, elem) THEN <<elem>> \o ListRemove(order, elem) ELSE order

ListPushFront(order, elem) == <<elem>> \o order

ListBack(order) == IF order = <<>> THEN nil ELSE order[Len(order)]

\* the map and the heap without one key, with one more key
Delete(f, k) == [x \in DOMAIN f \ {k} |-> f[x]]

Store(f, k, v) == [x \in DOMAIN f \cup {k} |-> IF x = k THEN v ELSE f[x]]

\* the elements reachable from the map or the list; the others are garbage
Live(c) == { c.items[k] : k \in DOMAIN c.items } \cup { c.order[i] : i \in 1..Len(c.order) }

Collected(c) == [c EXCEPT !.value = [e \in DOMAIN c.value \cap Live(c) |-> c.value[e]]]

GetElement(c, key) ==
    IF key \notin DOMAIN c.items
    THEN [cache |-> c, valid |-> FALSE, found |-> FALSE]
    ELSE LET elem == c.items[key]
         IN  [cache |-> [c EXCEPT !.order = ListMoveToFront(@, elem)],
              valid |-> c.value[elem].valid, found |-> TRUE]

\* faulty variant: the evicted key stays in the map
SetElementNoDelete(c, key, valid) ==
    IF key \in DOMAIN c.items
    THEN LET elem == c.items[key]
         IN  [c EXCEPT !.order = ListMoveToFront(@, elem), !.value[elem].valid = valid]
    ELSE LET oldest == ListBack(c.order)
             evict == Len(c.order) >= c.capacity /\ oldest # nil
             order == IF evict THEN ListRemove(c.order, oldest) ELSE c.order
             elem == c.next
         IN  Collected([c EXCEPT !.order = ListPushFront(order, elem),
                                 !.items = Store(c.items, key, elem),
                                 !.value = Store(c.value, elem, [key |-> key, valid |-> valid]),
                                 !.next = @ + 1])

SetElement(c, key, valid) ==
    IF key \in DOMAIN c.items
    THEN LET elem == c.items[key]
         IN  [c EXCEPT !.order = ListMoveToFront(@, elem), !.value[elem].valid = valid]
    ELSE LET oldest == ListBack(c.order)
             evict == Len(c.order) >= c.capacity /\ oldest # nil
             order == IF evict THEN ListRemove(c.order, oldest) ELSE c.order
             items == IF evict THEN Delete(c.items, c.value[oldest].key) ELSE c.items
             elem == c.next
         IN  Collected([c EXCEPT !.order = ListPushFront(order, elem),
                                 !.items = Store(items, key, elem),
                                 !.value = Store(c.value, elem, [key |-> key, valid |-> valid]),
                                 !.next = @ + 1])

IndexOf(order, key) == CHOOSE i \in 1..Len(order) : order[i].key = key

\* list.MoveToFront of the element of key
MoveToFront(order, key) ==
    LET i == IndexOf(order, key)
    IN  <<order[i]>> \o SubSeq(order, 1, i - 1) \o SubSeq(order, i + 1, Len(order))

\* faulty variant: a hit moves the element to the back of the list
GetMovingBack(c, key) ==
    IF key \notin c.items
    THEN [cache |-> c, valid |-> FALSE, found |-> FALSE]
    ELSE LET o == MoveToFront(c.order, key)
         IN  [cache |-> [c EXCEPT !.order = Tail(o) \o <<o[1]>>], valid |-> o[1].valid,
              found |-> TRUE]

\* faulty variant: a hit does not move the element to the front
GetNoMove(c, key) ==
    IF key \notin c.items
    THEN [cache |-> c, valid |-> FALSE, found |-> FALSE]
    ELSE [cache |-> c, valid |-> c.order[IndexOf(c.order, key)].valid, found |-> TRUE]

\* lruCache.Get: [cache, valid, found]
Get(c, key) ==
    IF key \notin c.items
    THEN [cache |-> c, valid |-> FALSE, found |-> FALSE]
    ELSE LET o == MoveToFront(c.order, key)
         IN  [cache |-> [c EXCEPT !.order = o], valid |-> o[1].valid, found |-> TRUE]

\* faulty variant: the result is not stored
SetNothing(c, key, valid) == c

\* faulty variant: the key is not looked up in the map before the insertion
SetNoLookup(c, key, valid) ==
    LET evict == Len(c.order) >= c.capacity /\ c.order # <<>>
        kept == IF evict THEN SubSeq(c.order, 1, Len(c.order) - 1) ELSE c.order
        keys == IF evict THEN c.items \ {c.order[Len(c.order)].key} ELSE c.items
    IN  [c EXCEPT !.items = keys \cup {key},
                  !.order = <<[key |-> key, valid |-> valid]>> \o kept]

\* faulty variant: the value of a cached key is updated where the element is
SetInPlace(c, key, valid) ==
    IF key \in c.items
    THEN [c EXCEPT !.order = [@ EXCEPT ![IndexOf(c.order, key)].valid = valid]]
    ELSE LET evict == Len(c.order) >= c.capacity /\ c.order # <<>>
             kept == IF evict THEN SubSeq(c.order, 1, Len(c.order) - 1) ELSE c.order
             keys == IF evict THEN c.items \ {c.order[Len(c.order)].key} ELSE c.items
         IN  [c EXCEPT !.items = keys \cup {key},
                       !.order = <<[key |-> key, valid |-> valid]>> \o kept]

\* faulty variant: the oldest entry is removed only above the capacity
SetLate(c, key, valid) ==
    IF key \in c.items
    THEN LET o == MoveToFront(c.order, key)
         IN  [c EXCEPT !.order = [o EXCEPT ![1].valid = valid]]
    ELSE LET evict == Len(c.order) > c.capacity
             kept == IF evict THEN SubSeq(c.order, 1, Len(c.order) - 1) ELSE c.order
             keys == IF evict THEN c.items \ {c.order[Len(c.order)].key} ELSE c.items
         IN  [c EXCEPT !.items = keys \cup {key},
                       !.order = <<[key |-> key, valid |-> valid]>> \o kept]

\* lruCache.Set: the cache after the call
Set(c, key, valid) ==
    IF key \in c.items
    THEN LET o == MoveToFront(c.order, key)
         IN  [c EXCEPT !.order = [o EXCEPT ![1].valid = valid]]
    ELSE LET full == Len(c.order) >= c.capacity
             evict == full /\ c.order # <<>>
             kept == IF evict THEN SubSeq(c.order, 1, Len(c.order) - 1) ELSE c.order
             keys == IF evict THEN c.items \ {c.order[Len(c.order)].key} ELSE c.items
         IN  [c EXCEPT !.items = keys \cup {key},
                       !.order = <<[key |-> key, valid |-> valid]>> \o kept]

(*********************** buildBloomFilter **********************************)
\* One run of buildBloomFilter over the records of a file.  cancelAt is the
\* first iteration at which ctx is done (0: never), failAt the call of
\* scanner.Scan that fails (0: never; 1 also stands for os.Open failing).
\* faulty variant: the record is added as read, without strings.TrimSpace
RECURSIVE BuildFromNoTrim(_, _, _, _, _, _)
BuildFromNoTrim(lines, i, count, filter, cancelAt, failAt) ==
    IF failAt = i THEN [filter |-> NilFilter, err |-> "io"]
    ELSE IF i > Len(lines) THEN [filter |-> filter, err |-> "none"]
    ELSE IF count % CheckEvery = 0 /\ cancelAt # 0 /\ cancelAt <= i
         THEN [filter |-> NilFilter, err |-> "ctx"]
    ELSE IF TrimSpace(lines[i]) # <<>>
         THEN BuildFromNoTrim(lines, i + 1, count + 1, AddString(filter, lines[i]),
                              cancelAt, failAt)
         ELSE BuildFromNoTrim(lines, i + 1, count, filter, cancelAt, failAt)

RECURSIVE BuildFrom(_, _, _, _, _, _)
BuildFrom(lines, i, count, filter, cancelAt, failAt) ==
    IF failAt = i THEN [filter |-> NilFilter, err |-> "io"]
    ELSE IF i > Len(lines) THEN [filter |-> filter, err |-> "none"]
    ELSE IF count % CheckEvery = 0 /\ cancelAt # 0 /\ cancelAt <= i
         THEN [filter |-> NilFilter, err |-> "ctx"]
    ELSE LET line == TrimSpace(lines[i])
         IN  IF line # <<>>
             THEN BuildFrom(lines, i + 1, count + 1, AddString(filter, line), cancelAt, failAt)
             ELSE BuildFrom(lines, i + 1, count, filter, cancelAt, failAt)

buildBloomFilter(lines, cancelAt, failAt) ==
    BuildFrom(lines, 1, 0, NewFilter, cancelAt, failAt)

(********************** searchFileForCoupon ********************************)
\* One run of searchFileForCoupon; cancelAt and failAt as in buildBloomFilter.
\* faulty variant: the record is compared without strings.TrimSpace
RECURSIVE SearchFromNoTrim(_, _, _, _, _)
SearchFromNoTrim(lines, couponCode, i, cancelAt, failAt) ==
    IF failAt = i THEN [found |-> FALSE, err |-> "io"]
    ELSE IF i > Len(lines) THEN [found |-> FALSE, err |-> "none"]
    ELSE IF cancelAt # 0 /\ cancelAt <= i THEN [found |-> FALSE, err |-> "ctx"]
    ELSE IF lines[i] = couponCode THEN [found |-> TRUE, err |-> "none"]
    ELSE SearchFromNoTrim(lines, couponCode, i + 1, cancelAt, failAt)

RECURSIVE SearchFrom(_, _, _, _, _)
SearchFrom(lines, couponCode, i, cancelAt, failAt) ==
    IF failAt = i THEN [found |-> FALSE, err |-> "io"]
    ELSE IF i > Len(lines) THEN [found |-> FALSE, err |-> "none"]
    ELSE IF cancelAt # 0 /\ cancelAt <= i THEN [found |-> FALSE, err |-> "ctx"]
    ELSE IF TrimSpace(lines[i]) = couponCode THEN [found |-> TRUE, err |-> "none"]
    ELSE SearchFrom(lines, couponCode, i + 1, cancelAt, failAt)

searchFileForCoupon(lines, couponCode, cancelAt, failAt) ==
    SearchFrom(lines, couponCode, 1, cancelAt, failAt)

\* the points at which a run over a file can see its context done, or fail
\* (a path that does not exist fails at os.Open)
CancelPoints(path, done) == IF done THEN 0..Len(Lines(path)) ELSE {0}
FailPoints(path) == IF Exists(path) THEN 0..(Len(Lines(path)) + 1) ELSE {1}

(***************************** the state ***********************************)
IdleLoad ==
    [pc |-> "idle", paths |-> <<>>, ctxDone |-> FALSE, ctxAt |-> "none",
     rejected |-> FALSE,
     pending |-> {}, resultsCh |-> <<>>, closed |-> FALSE,
     prePaths |-> <<>>, preFilters |-> <<>>]

\* scans: how many searches of the call have run on each source
IdleCall ==
    [pc |-> "idle", raw |-> <<>>, code |-> <<>>, ctxDone |-> FALSE,
     cancelled |-> FALSE, paths |-> <<>>, possibleFiles |-> {},
     running |-> {}, scans |-> <<0, 0, 0>>, resultsCh |-> <<>>, closed |-> FALSE,
     filesWithCoupon |-> 0, ioErr |-> FALSE, ret |-> FALSE, how |-> "none"]

NoPrev == [st |-> "none", code |-> <<>>, ret |-> FALSE]

\* no GetStats call in progress, no result waiting
NoStats ==
    [pc |-> "idle", total_files |-> 0, file_paths |-> <<>>, bloom_filters_loaded |-> 0,
     cache_size |-> 0, cache_capacity |-> 0]

IdleUrlLoad ==
    [pc |-> "idle", n |-> 0, urls |-> <<>>, pending |-> {}, resultChan |-> <<>>,
     closed |-> FALSE, results |-> <<>>, arrived |-> <<>>, pre |-> <<>>]

\* no IsValid call of the map-based validator yet.  pending: the search
\* goroutines that have not run; sending: those at their send; foundChan:
\* the values in the channel (all are true); sets: v.couponSets as the call
\* found it; left: the goroutines still running when the call returned
IdleMapCall ==
    [pc |-> "idle", code |-> <<>>, ctxDone |-> FALSE, cancelled |-> FALSE,
     pending |-> {}, sending |-> {}, foundChan |-> 0, closed |-> FALSE,
     count |-> 0, ret |-> FALSE, sets |-> <<>>, left |-> {}]

\* no run of searchFileForCoupon yet.  read: the records scanner.Scan has
\* yielded; done: ctx is cancelled; raisedAt: the records yielded when it was
NoScan ==
    [pc |-> "idle", path |-> "", code |-> <<>>, read |-> 0, done |-> FALSE,
     raisedAt |-> 0, found |-> FALSE, err |-> "none"]

\* main has not reached the coupon load
NotStarted ==
    [pc |-> "start", loader |-> "none", status |-> 0, router |-> FALSE, server |-> FALSE]

\* the goroutines that take the locks: two callers of IsValid, one of
\* GetStats, one of LoadFromFiles
Callers == {"v1", "v2"}

Threads == Callers \cup {"stats", "load"}

\* no mutex held, no call in progress: w is the goroutine holding the write
\* lock, r the goroutines holding the read lock
NoLocks ==
    [mu  |-> [w |-> "none", r |-> {}],
     cmu |-> [w |-> "none", r |-> {}],
     pc  |-> [t \in Threads |-> "idle"]]

\* NewValidator
Init ==
    /\ filePaths = <<>>
    /\ bloomFilters = <<>>
    /\ cache = newLRUCache(CacheCapacity)
    /\ load = IdleLoad
    /\ calls = [c \in Calls |-> IdleCall]
    /\ nLoads = 0
    /\ nLocked = 0
    /\ nFailed = 0
    /\ prev = NoPrev
    /\ ops = <<>>
    /\ stats = NoStats
    /\ couponSets = <<>>
    /\ urlLoad = IdleUrlLoad
    /\ mcall = IdleMapCall
    /\ main = NotStarted
    /\ scan = NoScan
    /\ lk = NoLocks
    /\ lru = newElements(CacheCapacity)

\* v.mu is held by a LoadFromFiles call from its Lock to its return
Locked == load.pc = "building"

(*************************** LoadFromFiles *********************************)
\* faulty variant: the paths are not checked with os.Stat
PathsOKNoStat(paths) == paths # <<>>

\* the checks made before v.mu is taken
PathsOK(paths) == paths # <<>> /\ \A i \in 1..Len(paths) : Exists(paths[i])

\* the call up to the launch of the builders
LoadFromFilesWithin(paths, ctxDone, maxLoads) ==
    /\ ~Locked
    /\ nLoads < maxLoads
    /\ nLoads' = nLoads + 1
    /\ IF ~PathsOK(paths)
       THEN /\ load' = [IdleLoad EXCEPT !.pc = "err", !.paths = paths,
                            !.rejected = TRUE,
                            !.prePaths = filePaths, !.preFilters = bloomFilters]
            /\ UNCHANGED <<filePaths, bloomFilters, nLocked>>
       ELSE /\ filePaths' = paths
            /\ bloomFilters' = [i \in 1..Len(paths) |-> NilFilter]
            /\ load' = [IdleLoad EXCEPT !.pc = "building", !.paths = paths,
                            !.ctxDone = ctxDone,
                            !.ctxAt = IF ctxDone THEN "before" ELSE "none",
                            !.pending = 1..Len(paths),
                            !.prePaths = filePaths, !.preFilters = bloomFilters]
            /\ nLocked' = nLocked + 1
    /\ UNCHANGED <<cache, calls, nFailed>>

LoadFromFiles(paths, ctxDone) == LoadFromFilesWithin(paths, ctxDone, MaxLoads)

\* the context given to LoadFromFiles is cancelled while the call runs:
\* while builders are streaming their files, or after the last one is done
LoadCancel ==
    /\ Locked
    /\ ~load.ctxDone
    /\ load' = [load EXCEPT !.ctxDone = TRUE,
                            !.ctxAt = IF load.pending # {} THEN "streaming" ELSE "after"]
    /\ UNCHANGED <<filePaths, bloomFilters, cache, calls, nLoads, nLocked, nFailed>>

\* where a builder can see ctx done: a context that was done before the call
\* is done at the first record
LoadCancelPoints(path) ==
    IF load.ctxAt = "before" THEN {1} ELSE CancelPoints(path, load.ctxDone)

\* a builder goroutine: buildBloomFilter, then the send on resultsCh (the
\* channel has room for every builder; after the call has returned nothing
\* reads it any more, and the model then drops what is sent)
\* buildBloomFilter of every file, for every point where the context is
\* cancelled and every point where reading fails
builtFilters ==
    [path \in DOMAIN Files \cup {"missing"} |->
        [cancelAt \in 0..(Len(Lines(path)) + 1), failAt \in 0..(Len(Lines(path)) + 1) |->
            buildBloomFilter(Lines(path), cancelAt, failAt)]]

Builder(i) ==
    /\ i \in load.pending
    /\ LET path == load.paths[i]
       IN  \E cancelAt \in LoadCancelPoints(path), failAt \in FailPoints(path) :
             \E res \in {builtFilters[path][cancelAt, failAt]} :
                 load' = [load EXCEPT
                            !.pending = @ \ {i},
                            !.resultsCh = IF Locked
                                          THEN Append(@, [index |-> i, filter |-> res.filter,
                                                          err |-> res.err])
                                          ELSE @]
    /\ UNCHANGED <<filePaths, bloomFilters, cache, calls, nLoads, nLocked, nFailed>>

\* the goroutine that waits for the builders and closes resultsCh
LoadCloser ==
    /\ Locked
    /\ load.pending = {}
    /\ ~load.closed
    /\ load' = [load EXCEPT !.closed = TRUE]
    /\ UNCHANGED <<filePaths, bloomFilters, cache, calls, nLoads, nLocked, nFailed>>

\* one iteration of "for res := range resultsCh", or the return nil after it
LoadCollect ==
    /\ Locked
    /\ IF load.resultsCh # <<>>
       THEN LET res == Head(load.resultsCh)
            IN  IF res.err # "none"
                THEN /\ load' = [load EXCEPT !.pc = "err", !.resultsCh = <<>>,
                                                !.ctxDone = FALSE, !.ctxAt = "none"]
                     /\ nFailed' = nFailed + 1
                     /\ UNCHANGED bloomFilters
                ELSE /\ bloomFilters' = [bloomFilters EXCEPT ![res.index] = res.filter]
                     /\ load' = [load EXCEPT !.resultsCh = Tail(@)]
                     /\ UNCHANGED nFailed
       ELSE /\ load.closed
            /\ load' = [load EXCEPT !.pc = "ok", !.ctxDone = FALSE, !.ctxAt = "none"]
            /\ UNCHANGED <<bloomFilters, nFailed>>
    /\ UNCHANGED <<filePaths, cache, calls, nLoads, nLocked>>

(******************************* IsValid ***********************************)
\* searchCtx of a call: done when the caller's ctx is, or after cancel()
SearchCtxDone(r) == r.ctxDone \/ r.cancelled

\* the indices whose filter tests positive ("possibleFiles")
PossibleFiles(filters, code) ==
    { i \in 1..Len(filters) : TestString(filters[i], code) }

\* what a returned call keeps: its input, its result and how it got it
Returned(r, ret, how) ==
    [IdleCall EXCEPT !.pc = "done", !.raw = r.raw, !.code = r.code,
                     !.ctxDone = r.ctxDone, !.ioErr = r.ioErr,
                     !.ret = ret, !.how = how]

\* faulty variant: only the lower limit is checked
LengthGateMinOnly(code) == Len(code) < MinLen

\* the length gate: len(code) < 8 || len(code) > 10
LengthGate(code) == Len(code) < MinLen \/ Len(code) > MaxLen

\* faulty variant: the rejection by the length gate is stored in the cache
IsValidStartStoringGate(c, raw) ==
    /\ calls[c].pc = "idle"
    /\ LET code == ToUpper(TrimSpace(raw))
           r == [IdleCall EXCEPT !.raw = raw, !.code = code]
           g == Get(cache, code)
       IN  IF LengthGate(code)
           THEN /\ calls' = [calls EXCEPT ![c] = Returned(r, FALSE, "gate")]
                /\ cache' = Set(cache, code, FALSE)
           ELSE /\ cache' = g.cache
                /\ calls' = [calls EXCEPT ![c] =
                               IF g.found THEN Returned(r, g.valid, "hit")
                                          ELSE [r EXCEPT !.pc = "filters"]]
    /\ UNCHANGED <<filePaths, bloomFilters, load, nLoads, nLocked, nFailed>>

\* normalisation, the length gate and tier 1, v.cache.Get(code)
IsValidStart(c, raw) ==
    /\ calls[c].pc = "idle"
    /\ LET code == ToUpper(TrimSpace(raw))
           r == [IdleCall EXCEPT !.raw = raw, !.code = code]
           g == Get(cache, code)
       IN  IF LengthGate(code)
           THEN /\ calls' = [calls EXCEPT ![c] = Returned(r, FALSE, "gate")]
                /\ UNCHANGED cache
           ELSE /\ cache' = g.cache
                /\ calls' = [calls EXCEPT ![c] =
                               IF g.found THEN Returned(r, g.valid, "hit")
                                          ELSE [r EXCEPT !.pc = "filters"]]
    /\ UNCHANGED <<filePaths, bloomFilters, load, nLoads, nLocked, nFailed>>

\* faulty variant: a search is launched on every source, candidate or not
IsValidFiltersAll(c) ==
    /\ calls[c].pc = "filters"
    /\ ~Locked
    /\ LET r == calls[c]
           s == [r EXCEPT !.paths = filePaths]
       IN  calls' = [calls EXCEPT ![c] =
             IF Len(bloomFilters) = 0
             THEN Returned(r, FALSE, "nofilters")
             ELSE IF \E i \in 1..Len(bloomFilters) : bloomFilters[i].nil
             THEN [r EXCEPT !.pc = "panic"]
             ELSE LET possibleFiles == PossibleFiles(bloomFilters, r.code)
                  IN  IF Cardinality(possibleFiles) < MinFiles
                      THEN [r EXCEPT !.pc = "reject"]
                      ELSE [s EXCEPT !.pc = "collect", !.possibleFiles = possibleFiles,
                                     !.running = 1..Len(bloomFilters)]]
    /\ UNCHANGED <<filePaths, bloomFilters, cache, load, nLoads, nLocked, nFailed>>

\* faulty variant: false is stored when no filters are loaded
IsValidFiltersStoringFalse(c) ==
    /\ calls[c].pc = "filters"
    /\ ~Locked
    /\ LET r == calls[c]
           s == [r EXCEPT !.paths = filePaths]
       IN  calls' = [calls EXCEPT ![c] =
             IF Len(bloomFilters) = 0
             THEN Returned(r, FALSE, "nofilters")
             ELSE IF \E i \in 1..Len(bloomFilters) : bloomFilters[i].nil
             THEN [r EXCEPT !.pc = "panic"]
             ELSE LET possibleFiles == PossibleFiles(bloomFilters, r.code)
                  IN  IF Cardinality(possibleFiles) < MinFiles
                      THEN [r EXCEPT !.pc = "reject"]
                      ELSE [s EXCEPT !.pc = "collect", !.possibleFiles = possibleFiles,
                                     !.running = possibleFiles]]
    /\ cache' = IF Len(bloomFilters) = 0 THEN Set(cache, calls[c].code, FALSE) ELSE cache
    /\ UNCHANGED <<filePaths, bloomFilters, load, nLoads, nLocked, nFailed>>

\* the read of the fields under v.mu.RLock, tier 2 (the test of the filters)
\* and the launch of the searches
IsValidFilters(c) ==
    /\ calls[c].pc = "filters"
    /\ ~Locked
    /\ LET r == calls[c]
           s == [r EXCEPT !.paths = filePaths]
       IN  calls' = [calls EXCEPT ![c] =
             IF Len(bloomFilters) = 0
             THEN Returned(r, FALSE, "nofilters")
             ELSE IF \E i \in 1..Len(bloomFilters) : bloomFilters[i].nil
             THEN [r EXCEPT !.pc = "panic"]
             ELSE LET possibleFiles == PossibleFiles(bloomFilters, r.code)
                  IN  IF Cardinality(possibleFiles) < MinFiles
                      THEN [r EXCEPT !.pc = "reject"]
                      ELSE [s EXCEPT !.pc = "collect", !.possibleFiles = possibleFiles,
                                     !.running = possibleFiles]]
    /\ UNCHANGED <<filePaths, bloomFilters, cache, load, nLoads, nLocked, nFailed>>

\* faulty variant: the rejection is not stored in the cache
IsValidRejectNoStore(c) ==
    /\ calls[c].pc = "reject"
    /\ calls' = [calls EXCEPT ![c] = Returned(@, FALSE, "reject")]
    /\ UNCHANGED <<filePaths, bloomFilters, cache, load, nLoads, nLocked, nFailed>>

\* fewer than two candidates: v.cache.Set(code, false) and return false
IsValidReject(c) ==
    /\ calls[c].pc = "reject"
    /\ cache' = Set(cache, calls[c].code, FALSE)
    /\ calls' = [calls EXCEPT ![c] = Returned(@, FALSE, "reject")]
    /\ UNCHANGED <<filePaths, bloomFilters, load, nLoads, nLocked, nFailed>>

\* a search goroutine: searchFileForCoupon, then the select between
\* searchCtx.Done() and the send of the result (the channel has room for
\* every search).  failAts: where the file system may fail during this run.
Search(c, i, failAts) ==
    /\ i \in calls[c].running
    /\ LET r == calls[c]
           path == r.paths[i]
       IN  \E cancelAt \in CancelPoints(path, SearchCtxDone(r)),
              failAt \in failAts \cap FailPoints(path),
              send \in IF SearchCtxDone(r) THEN BOOLEAN ELSE {TRUE} :
             LET res == searchFileForCoupon(Lines(path), r.code, cancelAt, failAt)
             IN  calls' = [calls EXCEPT ![c] =
                    [r EXCEPT !.running = @ \ {i},
                              !.scans[i] = @ + 1,
                              !.ioErr = @ \/ res.err = "io",
                              !.resultsCh = IF send THEN Append(@, res) ELSE @]]
    /\ UNCHANGED <<filePaths, bloomFilters, cache, load, nLoads, nLocked, nFailed>>

\* the goroutine that waits for the searches and closes resultsCh
SearchCloser(c) ==
    /\ calls[c].pc \in {"collect", "drain"}
    /\ calls[c].running = {}
    /\ ~calls[c].closed
    /\ calls' = [calls EXCEPT ![c].closed = TRUE]
    /\ UNCHANGED <<filePaths, bloomFilters, cache, load, nLoads, nLocked, nFailed>>

\* faulty variant: a result without error counts, found or not
CountsNoError(res) == res.err = "none"

\* faulty variant: a result with an error counts as well
CountsErrors(res) == res.err # "none" \/ res.found

\* does a received result count as a file with the coupon
Counts(res) == res.err = "none" /\ res.found

\* filesWithCoupon >= 2
Enough(n) == n >= MinFiles

\* faulty variant: the first result without the coupon ends the call
IsValidCollectGivingUp(c) ==
    /\ calls[c].pc = "collect"
    /\ LET r == calls[c]
       IN  IF r.resultsCh # <<>> /\ Counts(Head(r.resultsCh))
           THEN LET n == r.filesWithCoupon + 1
                IN  /\ calls' = [calls EXCEPT ![c] =
                          [r EXCEPT !.resultsCh = Tail(@),
                                    !.filesWithCoupon = n,
                                    !.cancelled = @ \/ Enough(n),
                                    !.pc = IF Enough(n) THEN "drain" ELSE @]]
                    /\ UNCHANGED cache
           ELSE /\ r.closed
                /\ LET isValid == Enough(r.filesWithCoupon)
                   IN  /\ cache' = Set(cache, r.code, isValid)
                       /\ calls' = [calls EXCEPT ![c] = Returned(r, isValid, "final")]
    /\ UNCHANGED <<filePaths, bloomFilters, load, nLoads, nLocked, nFailed>>

\* faulty variant: a negative decision of the confirm phase is not stored
IsValidCollectStoringTrueOnly(c) ==
    /\ calls[c].pc = "collect"
    /\ LET r == calls[c]
       IN  IF r.resultsCh # <<>>
           THEN LET res == Head(r.resultsCh)
                    n == IF Counts(res) THEN r.filesWithCoupon + 1 ELSE r.filesWithCoupon
                IN  /\ calls' = [calls EXCEPT ![c] =
                          [r EXCEPT !.resultsCh = Tail(@),
                                    !.filesWithCoupon = n,
                                    !.cancelled = @ \/ (Counts(res) /\ Enough(n)),
                                    !.pc = IF Counts(res) /\ Enough(n) THEN "drain" ELSE @]]
                    /\ UNCHANGED cache
           ELSE /\ r.closed
                /\ LET isValid == Enough(r.filesWithCoupon)
                   IN  /\ cache' = IF isValid THEN Set(cache, r.code, isValid) ELSE cache
                       /\ calls' = [calls EXCEPT ![c] = Returned(r, isValid, "final")]
    /\ UNCHANGED <<filePaths, bloomFilters, load, nLoads, nLocked, nFailed>>

\* one iteration of "for res := range resultsCh" with its early termination,
\* or the code after the loop
IsValidCollect(c) ==
    /\ calls[c].pc = "collect"
    /\ LET r == calls[c]
       IN  IF r.resultsCh # <<>>
           THEN LET res == Head(r.resultsCh)
                    n == IF Counts(res) THEN r.filesWithCoupon + 1 ELSE r.filesWithCoupon
                IN  /\ calls' = [calls EXCEPT ![c] =
                          [r EXCEPT !.resultsCh = Tail(@),
                                    !.filesWithCoupon = n,
                                    !.cancelled = @ \/ (Counts(res) /\ Enough(n)),
                                    !.pc = IF Counts(res) /\ Enough(n) THEN "drain" ELSE @]]
                    /\ UNCHANGED cache
           ELSE /\ r.closed
                /\ LET isValid == Enough(r.filesWithCoupon)
                   IN  /\ cache' = Set(cache, r.code, isValid)
                       /\ calls' = [calls EXCEPT ![c] = Returned(r, isValid, "final")]
    /\ UNCHANGED <<filePaths, bloomFilters, load, nLoads, nLocked, nFailed>>

\* faulty variant: the results read after cancel() are looked at, and an error
\* among them makes the call fail
IsValidDrainReading(c) ==
    /\ calls[c].pc = "drain"
    /\ calls[c].closed
    /\ LET late == calls[c].resultsCh
           isValid == \A i \in 1..Len(late) : late[i].err = "none"
       IN  /\ cache' = Set(cache, calls[c].code, isValid)
           /\ calls' = [calls EXCEPT ![c] = Returned(@, isValid, "early")]
    /\ UNCHANGED <<filePaths, bloomFilters, load, nLoads, nLocked, nFailed>>

\* after cancel(): "for range resultsCh {}" until the channel is closed, then
\* v.cache.Set(code, true) and return true
IsValidDrain(c) ==
    /\ calls[c].pc = "drain"
    /\ calls[c].closed
    /\ cache' = Set(cache, calls[c].code, TRUE)
    /\ calls' = [calls EXCEPT ![c] = Returned(@, TRUE, "early")]
    /\ UNCHANGED <<filePaths, bloomFilters, load, nLoads, nLocked, nFailed>>

\* the caller's context is cancelled.  Only the searches read it, so a
\* cancellation before they are launched is one before the first of them runs.
CancelCtx(c) ==
    /\ calls[c].pc \in {"collect", "drain"}
    /\ ~calls[c].ctxDone
    /\ calls' = [calls EXCEPT ![c].ctxDone = TRUE]
    /\ UNCHANGED <<filePaths, bloomFilters, cache, load, nLoads, nLocked, nFailed>>

\* the caller takes the result (a panic is recovered by the HTTP middleware)
\* and may call again
Finish(c) ==
    /\ calls[c].pc \in {"done", "panic"}
    /\ calls' = [calls EXCEPT ![c] = IdleCall]
    /\ UNCHANGED <<filePaths, bloomFilters, cache, load, nLoads, nLocked, nFailed>>

(************************** the specification ******************************)
(* Between the launch of its searches and the moment its channel is closed *)
(* and read empty, a call touches only its own record: its searches, its   *)
(* channel, its counter and its searchCtx.  Between Lock and the return,   *)
(* LoadFromFiles touches only the fields that v.mu guards and its own      *)
(* channel.  These steps commute with the steps of every other goroutine,  *)
(* so Next runs each such section without interleaving others into it; the *)
(* accesses to the cache and to the guarded fields interleave freely.      *)
(***************************************************************************)
Ready(c) ==
    /\ calls[c].closed
    /\ calls[c].pc = "drain" \/ calls[c].resultsCh = <<>>

Busy(c) ==
    \/ calls[c].pc \in {"done", "panic"}
    \/ calls[c].pc \in {"collect", "drain"} /\ ~Ready(c)

Turn(c) == ~Locked /\ \A d \in Calls \ {c} : ~Busy(d)

Quiet == \A c \in Calls : ~Busy(c)

AnyFail == 0..4

Next ==
    \/ Quiet /\ UNCHANGED <<prev, aux>>
             /\ \E paths \in PathLists, ctxDone \in BOOLEAN : LoadFromFiles(paths, ctxDone)
    \/ LoadCancel /\ UNCHANGED <<prev, aux>>
    \/ Quiet /\ UNCHANGED <<prev, aux>> /\ \E i \in 1..3 : Builder(i)
    \/ LoadCloser /\ UNCHANGED <<prev, aux>>
    \/ LoadCollect /\ UNCHANGED <<prev, aux>>
    \/ \E c \in Calls : Turn(c) /\ UNCHANGED <<prev, aux>> /\ \E raw \in RawCodes : IsValidStart(c, raw)
    \/ \E c \in Calls : Turn(c) /\ UNCHANGED <<prev, aux>> /\ IsValidFilters(c)
    \/ \E c \in Calls : Turn(c) /\ UNCHANGED <<prev, aux>> /\ IsValidReject(c)
    \/ \E c \in Calls : Turn(c) /\ UNCHANGED <<prev, aux>> /\ \E i \in 1..3 : Search(c, i, AnyFail)
    \/ \E c \in Calls : Turn(c) /\ UNCHANGED <<prev, aux>> /\ SearchCloser(c)
    \/ \E c \in Calls : Turn(c) /\ UNCHANGED <<prev, aux>> /\ IsValidCollect(c)
    \/ \E c \in Calls : Turn(c) /\ UNCHANGED <<prev, aux>> /\ IsValidDrain(c)
    \/ \E c \in Calls : Turn(c) /\ UNCHANGED <<prev, aux>> /\ CancelCtx(c)
    \/ \E c \in Calls : Turn(c) /\ UNCHANGED <<prev, aux>> /\ Finish(c)

Spec == Init /\ [][Next]_vars

(************************ a sequential caller ******************************)
(* SpecSeq: one caller, whose calls therefore follow one another.  prev    *)
(* remembers the call that returned last, until another operation          *)
(* (a LoadFromFiles, a call on another code) comes in between; "again"     *)
(* marks a call that repeats the previous one.                             *)
(***************************************************************************)
StartPrev(code) ==
    IF prev.st = "returned" /\ prev.code = code
    THEN [prev EXCEPT !.st = "again"]
    ELSE NoPrev

FinishPrev(r) ==
    IF r.pc = "done"
    THEN [st |-> "returned", code |-> r.code, ret |-> r.ret]
    ELSE NoPrev

NextSeq ==
    \/ Quiet /\ prev' = NoPrev /\ UNCHANGED aux
             /\ \E paths \in PathLists, ctxDone \in BOOLEAN : LoadFromFiles(paths, ctxDone)
    \/ LoadCancel /\ UNCHANGED <<prev, aux>>
    \/ Quiet /\ UNCHANGED <<prev, aux>> /\ \E i \in 1..3 : Builder(i)
    \/ LoadCloser /\ UNCHANGED <<prev, aux>>
    \/ LoadCollect /\ UNCHANGED <<prev, aux>>
    \/ ~Locked /\ \E raw \in RawCodes : IsValidStart(1, raw) /\ prev' = StartPrev(calls'[1].code)
                 /\ UNCHANGED aux
    \/ ~Locked /\ UNCHANGED <<prev, aux>> /\ IsValidFilters(1)
    \/ ~Locked /\ UNCHANGED <<prev, aux>> /\ IsValidReject(1)
    \/ ~Locked /\ UNCHANGED <<prev, aux>> /\ \E i \in 1..3 : Search(1, i, AnyFail)
    \/ ~Locked /\ UNCHANGED <<prev, aux>> /\ SearchCloser(1)
    \/ ~Locked /\ UNCHANGED <<prev, aux>> /\ IsValidCollect(1)
    \/ ~Locked /\ UNCHANGED <<prev, aux>> /\ IsValidDrain(1)
    \/ ~Locked /\ UNCHANGED <<prev, aux>> /\ CancelCtx(1)
    \/ ~Locked /\ prev' = FinishPrev(calls[1]) /\ UNCHANGED aux /\ Finish(1)

SpecSeq == Init /\ [][NextSeq]_vars

(******************* a file system with other records **********************)
(* SpecRec: the sequential caller on sources that hold a record on several *)
(* lines, a record in lower case and a record that is too short.           *)
(***************************************************************************)
RecPathLists == { <<"f1", "f2", "f3">>, <<"f1", "f4", "f3">>, <<"f4", "f2">> }

RecCodes == { VALIDABC, COUPON01, ToLower(COUPON01), Pad(COUPON01), SPECIAL9, SHORT }

NextRec ==
    \/ Quiet /\ prev' = NoPrev /\ UNCHANGED aux
             /\ \E paths \in RecPathLists, ctxDone \in BOOLEAN : LoadFromFiles(paths, ctxDone)
    \/ LoadCancel /\ UNCHANGED <<prev, aux>>
    \/ Quiet /\ UNCHANGED <<prev, aux>> /\ \E i \in 1..3 : Builder(i)
    \/ LoadCloser /\ UNCHANGED <<prev, aux>>
    \/ LoadCollect /\ UNCHANGED <<prev, aux>>
    \/ ~Locked /\ \E raw \in RecCodes : IsValidStart(1, raw) /\ prev' = StartPrev(calls'[1].code)
                 /\ UNCHANGED aux
    \/ ~Locked /\ UNCHANGED <<prev, aux>> /\ IsValidFilters(1)
    \/ ~Locked /\ UNCHANGED <<prev, aux>> /\ IsValidReject(1)
    \/ ~Locked /\ UNCHANGED <<prev, aux>> /\ \E i \in 1..3 : Search(1, i, AnyFail)
    \/ ~Locked /\ UNCHANGED <<prev, aux>> /\ SearchCloser(1)
    \/ ~Locked /\ UNCHANGED <<prev, aux>> /\ IsValidCollect(1)
    \/ ~Locked /\ UNCHANGED <<prev, aux>> /\ IsValidDrain(1)
    \/ ~Locked /\ UNCHANGED <<prev, aux>> /\ CancelCtx(1)
    \/ ~Locked /\ prev' = FinishPrev(calls[1]) /\ UNCHANGED aux /\ Finish(1)

SpecRec == Init /\ [][NextRec]_vars

(******************** concurrent callers, no faults ************************)
(* SpecConc: the callers' contexts are never cancelled and no search meets *)
(* an I/O error.  A returned call keeps its result while the other callers *)
(* run, so that the results of concurrent calls can be compared.  The      *)
(* cache has room for more than one entry.                                 *)
(***************************************************************************)
InitConc ==
    /\ filePaths = <<>>
    /\ bloomFilters = <<>>
    /\ cache = newLRUCache(CacheCapacity + 1)
    /\ load = IdleLoad
    /\ calls = [c \in Calls |-> IdleCall]
    /\ nLoads = 0
    /\ nLocked = 0
    /\ nFailed = 0
    /\ prev = NoPrev
    /\ ops = <<>>
    /\ stats = NoStats
    /\ couponSets = <<>>
    /\ urlLoad = IdleUrlLoad
    /\ mcall = IdleMapCall
    /\ main = NotStarted
    /\ scan = NoScan
    /\ lk = NoLocks
    /\ lru = newElements(CacheCapacity)

Searching(c) == calls[c].pc = "panic" \/ (calls[c].pc \in {"collect", "drain"} /\ ~Ready(c))

TurnConc(c) == ~Locked /\ \A d \in Calls \ {c} : ~Searching(d)

QuietConc == \A c \in Calls : ~Searching(c)

NoFail == {0}

NextConc ==
    \/ QuietConc /\ UNCHANGED <<prev, aux>>
                 /\ \E paths \in PathLists, ctxDone \in BOOLEAN : LoadFromFiles(paths, ctxDone)
    \/ LoadCancel /\ UNCHANGED <<prev, aux>>
    \/ QuietConc /\ UNCHANGED <<prev, aux>> /\ \E i \in 1..3 : Builder(i)
    \/ LoadCloser /\ UNCHANGED <<prev, aux>>
    \/ LoadCollect /\ UNCHANGED <<prev, aux>>
    \/ \E c \in Calls : TurnConc(c) /\ UNCHANGED <<prev, aux>> /\ \E raw \in RawCodes : IsValidStart(c, raw)
    \/ \E c \in Calls : TurnConc(c) /\ UNCHANGED <<prev, aux>> /\ IsValidFilters(c)
    \/ \E c \in Calls : TurnConc(c) /\ UNCHANGED <<prev, aux>> /\ IsValidReject(c)
    \/ \E c \in Calls : TurnConc(c) /\ UNCHANGED <<prev, aux>> /\ \E i \in 1..3 : Search(c, i, NoFail)
    \/ \E c \in Calls : TurnConc(c) /\ UNCHANGED <<prev, aux>> /\ SearchCloser(c)
    \/ \E c \in Calls : TurnConc(c) /\ UNCHANGED <<prev, aux>> /\ IsValidCollect(c)
    \/ \E c \in Calls : TurnConc(c) /\ UNCHANGED <<prev, aux>> /\ IsValidDrain(c)
    \/ \E c \in Calls : TurnConc(c) /\ UNCHANGED <<prev, aux>> /\ Finish(c)

SpecConc == InitConc /\ [][NextConc]_vars

(************************* the lruCache alone ******************************)
(* SpecCache: Get and Set called directly on an lruCache of any capacity   *)
(* from 1 to MaxCapacity.  Both methods hold c.mu from their first to      *)
(* their last statement, so concurrent calls take effect one at a time, in *)
(* some order: that order is ops.  Each entry of ops keeps the call, what  *)
(* it returned and the cache it found.                                     *)
(***************************************************************************)
CacheKeys == {VALIDABC, TESTCODE, COUPON01}

InitCache ==
    /\ filePaths = <<>>
    /\ bloomFilters = <<>>
    /\ cache \in { newLRUCache(capacity) : capacity \in 1..MaxCapacity }
    /\ load = IdleLoad
    /\ calls = [c \in Calls |-> IdleCall]
    /\ nLoads = 0
    /\ nLocked = 0
    /\ nFailed = 0
    /\ prev = NoPrev
    /\ ops = <<>>
    /\ stats = NoStats
    /\ couponSets = <<>>
    /\ urlLoad = IdleUrlLoad
    /\ mcall = IdleMapCall
    /\ main = NotStarted
    /\ scan = NoScan
    /\ lk = NoLocks
    /\ lru = newElements(CacheCapacity)

\* c.Get(key) by some goroutine
CacheGet(key) ==
    /\ Len(ops) < MaxOps
    /\ LET g == Get(cache, key)
       IN  /\ cache' = g.cache
           /\ ops' = Append(ops, [kind |-> "get", key |-> key, valid |-> g.valid,
                                  found |-> g.found, before |-> cache])
    /\ UNCHANGED <<filePaths, bloomFilters, load, calls, nLoads, nLocked, nFailed, prev,
                   stats, couponSets, urlLoad, mcall, main, scan, lk, lru>>

\* c.Set(key, valid) by some goroutine
CacheSet(key, valid) ==
    /\ Len(ops) < MaxOps
    /\ cache' = Set(cache, key, valid)
    /\ ops' = Append(ops, [kind |-> "set", key |-> key, valid |-> valid,
                           found |-> key \in cache.items, before |-> cache])
    /\ UNCHANGED <<filePaths, bloomFilters, load, calls, nLoads, nLocked, nFailed, prev,
                   stats, couponSets, urlLoad, mcall, main, scan, lk, lru>>

NextCache ==
    \/ \E key \in CacheKeys : CacheGet(key)
    \/ \E key \in CacheKeys, valid \in BOOLEAN : CacheSet(key, valid)

SpecCache == InitCache /\ [][NextCache]_vars

(******************************* GetStats **********************************)
(* SpecStats: a sequential caller of IsValid, LoadFromFiles, and a         *)
(* monitoring caller of GetStats.  GetStats holds v.mu.RLock from its      *)
(* first to its last statement, so no LoadFromFiles step comes between its *)
(* reads; the read of the fields commutes with the steps of IsValid, which *)
(* do not write them, so the reads of one call are one step, taken at the  *)
(* read of the cache.                                                      *)
(***************************************************************************)
\* faulty variant: the capacity is reported as the size
StatsOfCapacity(paths, filters, c) ==
    [pc |-> "returned",
     total_files |-> Len(paths), file_paths |-> paths,
     bloom_filters_loaded |-> Len(filters),
     cache_size |-> c.capacity, cache_capacity |-> c.capacity]

\* the map GetStats returns
StatsOf(paths, filters, c) ==
    [pc |-> "returned",
     total_files |-> Len(paths), file_paths |-> paths,
     bloom_filters_loaded |-> Len(filters),
     cache_size |-> Len(c.order), cache_capacity |-> c.capacity]

\* faulty variant: the size is obtained by emptying the list
GetStatsEmptying ==
    /\ stats.pc = "idle"
    /\ ~Locked
    /\ stats' = StatsOf(filePaths, bloomFilters, cache)
    /\ cache' = [cache EXCEPT !.order = <<>>, !.items = {}]
    /\ UNCHANGED <<filePaths, bloomFilters, load, calls, nLoads, nLocked, nFailed,
                   prev, ops, couponSets, urlLoad, mcall, main, scan, lk, lru>>

\* v.GetStats(): blocked while LoadFromFiles holds v.mu
GetStats ==
    /\ stats.pc = "idle"
    /\ ~Locked
    /\ stats' = StatsOf(filePaths, bloomFilters, cache)
    /\ UNCHANGED <<filePaths, bloomFilters, cache, load, calls, nLoads, nLocked, nFailed,
                   prev, ops, couponSets, urlLoad, mcall, main, scan, lk, lru>>

\* the monitoring caller takes the map and may call again
StatsTaken ==
    /\ stats.pc = "returned"
    /\ stats' = NoStats
    /\ UNCHANGED <<filePaths, bloomFilters, cache, load, calls, nLoads, nLocked, nFailed,
                   prev, ops, couponSets, urlLoad, mcall, main, scan, lk, lru>>

NextStats ==
    \/ NextSeq
    \/ GetStats
    \/ StatsTaken

SpecStats == Init /\ [][NextStats]_vars

(******************* the map-based validator: LoadFromURLs *****************)
(* SpecURLs: coupon.Validator of internal/coupon/validator.go, which keeps *)
(* one set of coupons per URL.  The file served at a URL has the records   *)
(* Lines(url); a download fails where the environment chooses (a URL that  *)
(* serves nothing always fails).  urlLoad.arrived is the order in which    *)
(* the results were received, urlLoad.pre the couponSets before the call.  *)
(***************************************************************************)
UrlLists ==
    { <<>>, <<"f1", "f2", "f3">>, <<"f3", "f2">>, <<"f1", "missing">>, <<"f4", "f4">> }

\* parseCoupons: the set built from the records; failAt as in buildBloomFilter
RECURSIVE ParseFrom(_, _, _, _)
ParseFrom(lines, i, coupons, failAt) ==
    IF failAt = i THEN [coupons |-> {}, err |-> "io"]
    ELSE IF i > Len(lines) THEN [coupons |-> coupons, err |-> "none"]
    ELSE LET line == TrimSpace(lines[i])
         IN  IF line # <<>>
             THEN ParseFrom(lines, i + 1, coupons \cup {line}, failAt)
             ELSE ParseFrom(lines, i + 1, coupons, failAt)

parseCoupons(lines, failAt) == ParseFrom(lines, 1, {}, failAt)

\* loadFromURL: the request, the status check and the gzip reader fail or
\* not (failAt = 1 stands for them too), then parseCoupons
loadFromURL(url, failAt) == parseCoupons(Lines(url), failAt)

\* the zero value of fileLoadResult
NoResult == [index |-> 0, coupons |-> {}, err |-> "none"]

\* the call up to the launch of the downloads
LoadFromURLs(urls) ==
    /\ urlLoad.pc # "loading"
    /\ urlLoad.n < MaxUrlLoads
    /\ urlLoad' =
         IF Len(urls) = 0
         THEN [IdleUrlLoad EXCEPT !.pc = "err", !.n = urlLoad.n + 1, !.pre = couponSets]
         ELSE [IdleUrlLoad EXCEPT !.pc = "loading", !.n = urlLoad.n + 1, !.urls = urls,
                                  !.pending = 1..Len(urls),
                                  !.results = [i \in 1..Len(urls) |-> NoResult],
                                  !.pre = couponSets]
    /\ UNCHANGED <<filePaths, bloomFilters, cache, load, calls, nLoads, nLocked, nFailed,
                   prev, ops, stats, couponSets>>

\* a download goroutine: loadFromURL, then the send on resultChan (the
\* channel has room for every download)
Downloader(i) ==
    /\ urlLoad.pc = "loading"
    /\ i \in urlLoad.pending
    /\ \E failAt \in FailPoints(urlLoad.urls[i]) :
         LET res == loadFromURL(urlLoad.urls[i], failAt)
         IN  urlLoad' = [urlLoad EXCEPT
                           !.pending = @ \ {i},
                           !.resultChan = Append(@, [index |-> i, coupons |-> res.coupons,
                                                     err |-> res.err])]
    /\ UNCHANGED <<filePaths, bloomFilters, cache, load, calls, nLoads, nLocked, nFailed,
                   prev, ops, stats, couponSets>>

\* the goroutine that waits for the downloads and closes resultChan
UrlCloser ==
    /\ urlLoad.pc = "loading"
    /\ urlLoad.pending = {}
    /\ ~urlLoad.closed
    /\ urlLoad' = [urlLoad EXCEPT !.closed = TRUE]
    /\ UNCHANGED <<filePaths, bloomFilters, cache, load, calls, nLoads, nLocked, nFailed,
                   prev, ops, stats, couponSets>>

\* results[result.index] = result
StoreResult(results, res) == [results EXCEPT ![res.index] = res]

\* one iteration of "for result := range resultChan"
UrlCollect ==
    /\ urlLoad.pc = "loading"
    /\ urlLoad.resultChan # <<>>
    /\ LET res == Head(urlLoad.resultChan)
       IN  urlLoad' = [urlLoad EXCEPT
                         !.resultChan = Tail(@),
                         !.results = StoreResult(@, res),
                         !.arrived = Append(@, res.index)]
    /\ UNCHANGED <<filePaths, bloomFilters, cache, load, calls, nLoads, nLocked, nFailed,
                   prev, ops, stats, couponSets>>

\* faulty variant: only the first result is looked at
AnyErrorInFirst(results) == results[1].err # "none"

\* the loop that returns the error of the first result that has one
AnyError(results) == \E i \in 1..Len(results) : results[i].err # "none"

\* after the loop: the check for errors, then v.couponSets under v.mu
UrlStore ==
    /\ urlLoad.pc = "loading"
    /\ urlLoad.resultChan = <<>>
    /\ urlLoad.closed
    /\ mcall.pc # "searching"        \* v.mu.Lock() waits for the readers
    /\ IF AnyError(urlLoad.results)
       THEN /\ urlLoad' = [urlLoad EXCEPT !.pc = "err"]
            /\ UNCHANGED couponSets
       ELSE /\ urlLoad' = [urlLoad EXCEPT !.pc = "ok"]
            /\ couponSets' = [i \in 1..Len(urlLoad.results) |-> urlLoad.results[i].coupons]
    /\ UNCHANGED <<filePaths, bloomFilters, cache, load, calls, nLoads, nLocked, nFailed,
                   prev, ops, stats>>

NextURLs ==
    \/ UNCHANGED <<mcall, main, scan, lk, lru>> /\ \E urls \in UrlLists : LoadFromURLs(urls)
    \/ UNCHANGED <<mcall, main, scan, lk, lru>> /\ \E i \in 1..3 : Downloader(i)
    \/ UNCHANGED <<mcall, main, scan, lk, lru>> /\ UrlCloser
    \/ UNCHANGED <<mcall, main, scan, lk, lru>> /\ UrlCollect
    \/ UNCHANGED <<mcall, main, scan, lk, lru>> /\ UrlStore

SpecURLs == Init /\ [][NextURLs]_vars

(******************** the map-based validator: IsValid *********************)
(* SpecMap: one caller of IsValid next to the loads of SpecURLs.  The call *)
(* holds v.mu for reading from its RLock to its return, so v.couponSets is *)
(* the same for the whole call; a search goroutine is two steps, the look- *)
(* up and the send, because searchCtx can be cancelled between them.  The  *)
(* goroutines that are still running when the call returns go on running.  *)
(* A call starts between two loads: the steps of a load before UrlStore    *)
(* touch nothing that IsValid reads.                                       *)
(***************************************************************************)
MapCodes == { VALIDABC, TESTCODE, ToLower(TESTCODE), COUPON01, SPECIAL9, NOTEXIST,
              SHORT, TOOLONGCODE }

\* faulty variant: one set is enough
MapEnoughOne(count) == count >= 1

\* count >= 2
MapEnough(count) == count >= 2

\* the call up to the launch of the search goroutines; ctxDone: the caller's
\* context is already cancelled
MapIsValid(code, ctxDone) ==
    /\ mcall.pc # "searching"
    /\ mcall' =
         IF Len(code) < MinLen \/ Len(code) > MaxLen
         THEN [IdleMapCall EXCEPT !.pc = "done", !.code = code, !.ctxDone = ctxDone,
                                  !.ret = FALSE, !.sets = couponSets]
         ELSE IF Len(couponSets) = 0
         THEN [IdleMapCall EXCEPT !.pc = "done", !.code = code, !.ctxDone = ctxDone,
                                  !.ret = FALSE, !.sets = couponSets]
         ELSE [IdleMapCall EXCEPT !.pc = "searching", !.code = code, !.ctxDone = ctxDone,
                                  !.cancelled = ctxDone, !.sets = couponSets,
                                  !.pending = 1..Len(couponSets)]
    /\ UNCHANGED <<filePaths, bloomFilters, cache, load, calls, nLoads, nLocked, nFailed,
                   prev, ops, stats, couponSets, urlLoad, main, scan, lk, lru>>

\* a search goroutine up to its send: the check of searchCtx, then the look-up
MapSearch(i) ==
    /\ mcall.pc \in {"searching", "done"}
    /\ i \in mcall.pending
    /\ mcall' =
         IF ~mcall.cancelled /\ mcall.code \in mcall.sets[i]
         THEN [mcall EXCEPT !.pending = @ \ {i}, !.sending = @ \cup {i}]
         ELSE [mcall EXCEPT !.pending = @ \ {i}]
    /\ UNCHANGED <<filePaths, bloomFilters, cache, load, calls, nLoads, nLocked, nFailed,
                   prev, ops, stats, couponSets, urlLoad, main, scan, lk, lru>>

\* faulty variant: a send that needs the caller to be receiving
MapSendBlocking(i) ==
    /\ mcall.pc = "searching"
    /\ i \in mcall.sending
    /\ mcall' = [mcall EXCEPT !.sending = @ \ {i}, !.foundChan = @ + 1]
    /\ UNCHANGED <<filePaths, bloomFilters, cache, load, calls, nLoads, nLocked, nFailed,
                   prev, ops, stats, couponSets, urlLoad, main, scan, lk, lru>>

\* its select: the send on foundChan (which has room for every goroutine),
\* or nothing once searchCtx is cancelled
MapSend(i) ==
    /\ mcall.pc \in {"searching", "done"}
    /\ i \in mcall.sending
    /\ \/ mcall' = [mcall EXCEPT !.sending = @ \ {i}, !.foundChan = @ + 1]
       \/ /\ mcall.cancelled
          /\ mcall' = [mcall EXCEPT !.sending = @ \ {i}]
    /\ UNCHANGED <<filePaths, bloomFilters, cache, load, calls, nLoads, nLocked, nFailed,
                   prev, ops, stats, couponSets, urlLoad, main, scan, lk, lru>>

\* the goroutine that waits for the searches and closes foundChan
MapCloser ==
    /\ mcall.pc \in {"searching", "done"}
    /\ mcall.pending = {}
    /\ mcall.sending = {}
    /\ ~mcall.closed
    /\ mcall' = [mcall EXCEPT !.closed = TRUE]
    /\ UNCHANGED <<filePaths, bloomFilters, cache, load, calls, nLoads, nLocked, nFailed,
                   prev, ops, stats, couponSets, urlLoad, main, scan, lk, lru>>

\* one iteration of "for range foundChan"; at the second value cancel(),
\* break and the return (with the deferred cancel and RUnlock)
MapCount ==
    /\ mcall.pc = "searching"
    /\ mcall.foundChan > 0
    /\ LET count == mcall.count + 1
       IN  IF MapEnough(count)
           THEN mcall' = [mcall EXCEPT !.foundChan = @ - 1, !.count = count,
                                       !.cancelled = TRUE, !.pc = "done",
                                       !.ret = MapEnough(count),
                                       !.left = mcall.pending \cup mcall.sending]
           ELSE mcall' = [mcall EXCEPT !.foundChan = @ - 1, !.count = count]
    /\ UNCHANGED <<filePaths, bloomFilters, cache, load, calls, nLoads, nLocked, nFailed,
                   prev, ops, stats, couponSets, urlLoad, main, scan, lk, lru>>

\* the loop ends on the closed and empty channel: return count >= 2
MapFinish ==
    /\ mcall.pc = "searching"
    /\ mcall.foundChan = 0
    /\ mcall.closed
    /\ mcall' = [mcall EXCEPT !.cancelled = TRUE, !.pc = "done",
                              !.ret = MapEnough(mcall.count)]
    /\ UNCHANGED <<filePaths, bloomFilters, cache, load, calls, nLoads, nLocked, nFailed,
                   prev, ops, stats, couponSets, urlLoad, main, scan, lk, lru>>

\* the caller cancels the context of the call in progress
MapCancelCtx ==
    /\ mcall.pc = "searching"
    /\ ~mcall.ctxDone
    /\ mcall' = [mcall EXCEPT !.ctxDone = TRUE, !.cancelled = TRUE]
    /\ UNCHANGED <<filePaths, bloomFilters, cache, load, calls, nLoads, nLocked, nFailed,
                   prev, ops, stats, couponSets, urlLoad, main, scan, lk, lru>>

NextMap ==
    \/ UNCHANGED main /\ NextURLs
    \/ urlLoad.pc # "loading" /\ \E code \in MapCodes, ctxDone \in BOOLEAN :
                                     MapIsValid(code, ctxDone)
    \/ \E i \in 1..3 : MapSearch(i)
    \/ \E i \in 1..3 : MapSend(i)
    \/ MapCloser
    \/ MapCount
    \/ MapFinish
    \/ MapCancelCtx

SpecMap == Init /\ [][NextMap]_vars

(****************** searchFileForCoupon, record by record ******************)
(* SpecScan: one run of searchFileForCoupon after another, each step of    *)
(* its loop on its own, next to a caller that cancels ctx at any moment.   *)
(* The file system fails where the environment chooses.                    *)
(***************************************************************************)
ScanPaths == { "f1", "f2", "f3", "f4", "missing" }

ScanCodes == { VALIDABC, TESTCODE, COUPON01, SPECIAL9, NOTEXIST }

\* return found, err
ScanReturn(found, err) == [scan EXCEPT !.pc = "returned", !.found = found, !.err = err]

\* the call and os.Open; ctxDone: ctx is already cancelled
ScanOpen(path, code, ctxDone) ==
    /\ scan.pc \in {"idle", "returned"}
    /\ LET s == [NoScan EXCEPT !.pc = "scanning", !.path = path, !.code = code,
                               !.done = ctxDone]
       IN  \/ /\ Exists(path)
              /\ scan' = s
           \/ scan' = [s EXCEPT !.pc = "returned", !.err = "io"]
    /\ UNCHANGED <<filePaths, bloomFilters, cache, load, calls, nLoads, nLocked, nFailed,
                   prev, ops, stats, couponSets, urlLoad, mcall, main, lk, lru>>

\* scanner.Scan(): the next record, or the end of the file, or an error of
\* the read (these two leave the loop: scanner.Err() and the last return)
ScanNext ==
    /\ scan.pc = "scanning"
    /\ \/ /\ scan.read < Len(Lines(scan.path))
          /\ scan' = [scan EXCEPT !.pc = "record", !.read = @ + 1]
       \/ /\ scan.read = Len(Lines(scan.path))
          /\ scan' = ScanReturn(FALSE, "none")
       \/ scan' = ScanReturn(FALSE, "io")
    /\ UNCHANGED <<filePaths, bloomFilters, cache, load, calls, nLoads, nLocked, nFailed,
                   prev, ops, stats, couponSets, urlLoad, mcall, main, lk, lru>>

\* faulty variant: ctx is read at every second record only
ScanCheckSometimes ==
    /\ scan.pc = "record"
    /\ scan' = IF scan.done /\ scan.read % 2 = 0
               THEN ScanReturn(FALSE, "ctx")
               ELSE [scan EXCEPT !.pc = "compare"]
    /\ UNCHANGED <<filePaths, bloomFilters, cache, load, calls, nLoads, nLocked, nFailed,
                   prev, ops, stats, couponSets, urlLoad, mcall, main, lk, lru>>

\* the select on ctx.Done() at the top of the loop body
ScanCheck ==
    /\ scan.pc = "record"
    /\ scan' = IF scan.done
               THEN ScanReturn(FALSE, "ctx")
               ELSE [scan EXCEPT !.pc = "compare"]
    /\ UNCHANGED <<filePaths, bloomFilters, cache, load, calls, nLoads, nLocked, nFailed,
                   prev, ops, stats, couponSets, urlLoad, mcall, main, lk, lru>>

\* strings.TrimSpace(scanner.Text()) == couponCode
ScanCompare ==
    /\ scan.pc = "compare"
    /\ scan' = IF TrimSpace(Lines(scan.path)[scan.read]) = scan.code
               THEN ScanReturn(TRUE, "none")
               ELSE [scan EXCEPT !.pc = "scanning"]
    /\ UNCHANGED <<filePaths, bloomFilters, cache, load, calls, nLoads, nLocked, nFailed,
                   prev, ops, stats, couponSets, urlLoad, mcall, main, lk, lru>>

\* ctx is cancelled while the run is in its loop
ScanCancel ==
    /\ scan.pc \in {"scanning", "record", "compare"}
    /\ ~scan.done
    /\ scan' = [scan EXCEPT !.done = TRUE, !.raisedAt = scan.read]
    /\ UNCHANGED <<filePaths, bloomFilters, cache, load, calls, nLoads, nLocked, nFailed,
                   prev, ops, stats, couponSets, urlLoad, mcall, main, lk, lru>>

NextScan ==
    \/ \E path \in ScanPaths, code \in ScanCodes, ctxDone \in BOOLEAN :
         ScanOpen(path, code, ctxDone)
    \/ ScanNext
    \/ ScanCheck
    \/ ScanCompare
    \/ ScanCancel

SpecScan == Init /\ [][NextScan]_vars

(***************************** fair scheduling *****************************)
(* SpecLive: a process runs one version of the validator, the Bloom-filter *)
(* one (with its sequential caller, as in SpecSeq) or the map-based one    *)
(* (as in SpecMap).  The Go scheduler runs every goroutine that can run:   *)
(* weak fairness for the thread of the call, for each search goroutine,    *)
(* for the goroutine that closes the channel, and for the goroutines of a  *)
(* load.  Nothing obliges a caller to call, to cancel or to load.          *)
(***************************************************************************)
\* the process runs the Bloom-filter validator
BloomOnly == urlLoad.pc = "idle" /\ mcall.pc = "idle"

\* the process runs the map-based validator
MapOnly == nLoads = 0 /\ \A c \in Calls : calls[c].pc = "idle"

\* the goroutine of the caller inside IsValid
CallThread ==
    /\ BloomOnly /\ ~Locked /\ UNCHANGED <<prev, aux>>
    /\ IsValidFilters(1) \/ IsValidReject(1) \/ IsValidCollect(1) \/ IsValidDrain(1)

SearchRoutine(i) ==
    BloomOnly /\ ~Locked /\ UNCHANGED <<prev, aux>> /\ Search(1, i, AnyFail)

CloserRoutine == BloomOnly /\ ~Locked /\ UNCHANGED <<prev, aux>> /\ SearchCloser(1)

\* the goroutines of LoadFromFiles
LoadRoutines ==
    /\ BloomOnly /\ UNCHANGED <<prev, aux>>
    /\ (Quiet /\ \E i \in 1..3 : Builder(i)) \/ LoadCloser \/ LoadCollect

\* the goroutine of the caller inside the map-based IsValid
MapThread == MapOnly /\ (MapCount \/ MapFinish)

MapSearchRoutine(i) == MapOnly /\ (MapSearch(i) \/ MapSend(i))

MapCloserRoutine == MapOnly /\ MapCloser

\* one load at most in the map-based version
(***************************************************************************)
(* The lruCache with its pointers, exercised alone: any sequence of Get    *)
(* and Set calls that allocates at most MaxElements list elements.         *)
(***************************************************************************)
InitElements ==
    /\ filePaths = <<>>
    /\ bloomFilters = <<>>
    /\ cache = newLRUCache(CacheCapacity)
    /\ load = IdleLoad
    /\ calls = [c \in Calls |-> IdleCall]
    /\ nLoads = 0
    /\ nLocked = 0
    /\ nFailed = 0
    /\ prev = NoPrev
    /\ ops = <<>>
    /\ stats = NoStats
    /\ couponSets = <<>>
    /\ urlLoad = IdleUrlLoad
    /\ mcall = IdleMapCall
    /\ main = NotStarted
    /\ scan = NoScan
    /\ lk = NoLocks
    /\ lru \in { newElements(capacity) : capacity \in 1..MaxCapacity }

OutsideElements ==
    <<filePaths, bloomFilters, cache, load, calls, nLoads, nLocked, nFailed, prev,
      ops, stats, couponSets, urlLoad, mcall, main, scan, lk>>

\* c.Get(key)
ElementGet(key) ==
    /\ lru' = GetElement(lru, key).cache
    /\ UNCHANGED OutsideElements

\* c.Set(key, valid)
ElementSet(key, valid) ==
    /\ key \in DOMAIN lru.items \/ lru.next <= MaxElements
    /\ lru' = SetElement(lru, key, valid)
    /\ UNCHANGED OutsideElements

NextElements ==
    \/ \E key \in CacheKeys : ElementGet(key)
    \/ \E key \in CacheKeys, valid \in BOOLEAN : ElementSet(key, valid)

SpecElements == InitElements /\ [][NextElements]_vars

(***************************************************************************)
(* The two locks.  v.mu and cache.mu are sync.RWMutex: Lock waits until no *)
(* goroutine holds the mutex, RLock waits while a writer holds it or waits *)
(* for it.  Three kinds of goroutine: the callers of IsValid, a caller of  *)
(* GetStats and a caller of LoadFromFiles; each one calls again and again. *)
(* pc[t] is where goroutine t stands:                                      *)
(*   IsValid:  idle, getLock, inGet, muRLock, snapshot, scanning, setLock, *)
(*             inSet                                                       *)
(*   GetStats: idle, muRLock, cacheRLock, reading, return                  *)
(*   LoadFromFiles: idle, muLock, building                                 *)
(***************************************************************************)
OutsideLocks ==
    <<filePaths, bloomFilters, cache, load, calls, nLoads, nLocked, nFailed, prev,
      ops, stats, couponSets, urlLoad, mcall, main, scan, lru>>

\* sync.RWMutex.Lock and RLock can return
CanLock(m) == m.w = "none" /\ m.r = {}

CanRLock(m, waiting) == m.w = "none" /\ ~\E t \in Threads : lk.pc[t] \in waiting

At(t, pc) == [lk.pc EXCEPT ![t] = pc]

\* IsValid is called with a code that passes the length gate
CallIsValid(t) ==
    /\ lk.pc[t] = "idle"
    /\ lk' = [lk EXCEPT !.pc = At(t, "getLock")]
    /\ UNCHANGED OutsideLocks

\* cache.Get: c.mu.Lock()
CacheGetLock(t) ==
    /\ lk.pc[t] = "getLock"
    /\ CanLock(lk.cmu)
    /\ lk' = [lk EXCEPT !.cmu.w = t, !.pc = At(t, "inGet")]
    /\ UNCHANGED OutsideLocks

\* cache.Get returns (deferred Unlock): a hit returns from IsValid, a miss
\* goes on to v.mu.RLock()
CacheGetUnlock(t) ==
    /\ lk.pc[t] = "inGet"
    /\ \E next \in {"idle", "muRLock"} :
         lk' = [lk EXCEPT !.cmu.w = "none", !.pc = At(t, next)]
    /\ UNCHANGED OutsideLocks

\* v.mu.RLock() before the two fields are read
SnapshotRLock(t) ==
    /\ lk.pc[t] = "muRLock"
    /\ CanRLock(lk.mu, {"muLock"})
    /\ lk' = [lk EXCEPT !.mu.r = @ \cup {t}, !.pc = At(t, "snapshot")]
    /\ UNCHANGED OutsideLocks

\* faulty variant: the read lock is kept while the files are searched
SnapshotKeepingRLock(t) ==
    /\ lk.pc[t] = "snapshot"
    /\ \E next \in {"idle", "setLock", "scanning"} :
         lk' = [lk EXCEPT !.mu.r = IF next = "scanning" THEN @ ELSE @ \ {t},
                          !.pc = At(t, next)]
    /\ UNCHANGED OutsideLocks

\* v.mu.RUnlock(); then no filters: return; fewer than two candidates:
\* cache.Set; otherwise the searches
SnapshotRUnlock(t) ==
    /\ lk.pc[t] = "snapshot"
    /\ \E next \in {"idle", "setLock", "scanning"} :
         lk' = [lk EXCEPT !.mu.r = @ \ {t}, !.pc = At(t, next)]
    /\ UNCHANGED OutsideLocks

\* the searches and the collect loop, up to cache.Set
ScanUnlocked(t) ==
    /\ lk.pc[t] = "scanning"
    /\ lk' = [lk EXCEPT !.pc = At(t, "setLock")]
    /\ UNCHANGED OutsideLocks

\* cache.Set: c.mu.Lock()
CacheSetLock(t) ==
    /\ lk.pc[t] = "setLock"
    /\ CanLock(lk.cmu)
    /\ lk' = [lk EXCEPT !.cmu.w = t, !.pc = At(t, "inSet")]
    /\ UNCHANGED OutsideLocks

\* cache.Set returns (deferred Unlock) and IsValid returns
CacheSetUnlock(t) ==
    /\ lk.pc[t] = "inSet"
    /\ lk' = [lk EXCEPT !.cmu.w = "none", !.pc = At(t, "idle")]
    /\ UNCHANGED OutsideLocks

\* GetStats is called
CallGetStats ==
    /\ lk.pc["stats"] = "idle"
    /\ lk' = [lk EXCEPT !.pc = At("stats", "muRLock")]
    /\ UNCHANGED OutsideLocks

\* v.mu.RLock()
StatsRLock ==
    /\ lk.pc["stats"] = "muRLock"
    /\ CanRLock(lk.mu, {"muLock"})
    /\ lk' = [lk EXCEPT !.mu.r = @ \cup {"stats"}, !.pc = At("stats", "cacheRLock")]
    /\ UNCHANGED OutsideLocks

\* v.cache.mu.RLock(), with v.mu still read-locked
StatsCacheRLock ==
    /\ lk.pc["stats"] = "cacheRLock"
    /\ CanRLock(lk.cmu, {"getLock", "setLock"})
    /\ lk' = [lk EXCEPT !.cmu.r = @ \cup {"stats"}, !.pc = At("stats", "reading")]
    /\ UNCHANGED OutsideLocks

\* v.cache.mu.RUnlock()
StatsCacheRUnlock ==
    /\ lk.pc["stats"] = "reading"
    /\ lk' = [lk EXCEPT !.cmu.r = @ \ {"stats"}, !.pc = At("stats", "return")]
    /\ UNCHANGED OutsideLocks

\* return stats, with the deferred v.mu.RUnlock()
StatsRUnlock ==
    /\ lk.pc["stats"] = "return"
    /\ lk' = [lk EXCEPT !.mu.r = @ \ {"stats"}, !.pc = At("stats", "idle")]
    /\ UNCHANGED OutsideLocks

\* LoadFromFiles is called with files that exist
CallLoadFromFiles ==
    /\ lk.pc["load"] = "idle"
    /\ lk' = [lk EXCEPT !.pc = At("load", "muLock")]
    /\ UNCHANGED OutsideLocks

\* v.mu.Lock()
LoadLock ==
    /\ lk.pc["load"] = "muLock"
    /\ CanLock(lk.mu)
    /\ lk' = [lk EXCEPT !.mu.w = "load", !.pc = At("load", "building")]
    /\ UNCHANGED OutsideLocks

\* the builders are done, or one failed: return, with the deferred
\* v.mu.Unlock()
LoadUnlock ==
    /\ lk.pc["load"] = "building"
    /\ lk' = [lk EXCEPT !.mu.w = "none", !.pc = At("load", "idle")]
    /\ UNCHANGED OutsideLocks

\* the steps of the calls in progress
LockSteps ==
    \/ \E t \in Callers : CacheGetLock(t)
    \/ \E t \in Callers : CacheGetUnlock(t)
    \/ \E t \in Callers : SnapshotRLock(t)
    \/ \E t \in Callers : SnapshotRUnlock(t)
    \/ \E t \in Callers : ScanUnlocked(t)
    \/ \E t \in Callers : CacheSetLock(t)
    \/ \E t \in Callers : CacheSetUnlock(t)
    \/ StatsRLock
    \/ StatsCacheRLock
    \/ StatsCacheRUnlock
    \/ StatsRUnlock
    \/ LoadLock
    \/ LoadUnlock

NextLocks ==
    \/ \E t \in Callers : CallIsValid(t)
    \/ CallGetStats
    \/ CallLoadFromFiles
    \/ LockSteps

SpecLocks == Init /\ [][NextLocks]_vars

(***************************************************************************)
(* A reload: LoadFromFiles called again with other files, between two     *)
(* IsValid calls of one caller, no cancelled context and no read error.    *)
(***************************************************************************)
ReloadPathLists == { <<"f1", "f2", "f3">>, <<"f4", "f2">> }

ReloadCodes == { TESTCODE, VALIDABC, NOTEXIST }

NextReload ==
    \/ calls[1].pc = "idle" /\ prev' = NoPrev /\ UNCHANGED aux
             /\ \E paths \in ReloadPathLists : LoadFromFilesWithin(paths, FALSE, MaxReloads)
    \/ Quiet /\ UNCHANGED <<prev, aux>> /\ \E i \in 1..3 : Builder(i)
    \/ LoadCloser /\ UNCHANGED <<prev, aux>>
    \/ LoadCollect /\ UNCHANGED <<prev, aux>>
    \/ ~Locked /\ \E raw \in ReloadCodes : IsValidStart(1, raw) /\ prev' = StartPrev(calls'[1].code)
                 /\ UNCHANGED aux
    \/ ~Locked /\ UNCHANGED <<prev, aux>> /\ IsValidFilters(1)
    \/ ~Locked /\ UNCHANGED <<prev, aux>> /\ IsValidReject(1)
    \/ ~Locked /\ UNCHANGED <<prev, aux>> /\ \E i \in 1..3 : Search(1, i, NoFail)
    \/ ~Locked /\ UNCHANGED <<prev, aux>> /\ SearchCloser(1)
    \/ ~Locked /\ UNCHANGED <<prev, aux>> /\ IsValidCollect(1)
    \/ ~Locked /\ UNCHANGED <<prev, aux>> /\ IsValidDrain(1)
    \/ ~Locked /\ prev' = FinishPrev(calls[1]) /\ UNCHANGED aux /\ Finish(1)

SpecReload == Init /\ [][NextReload]_vars

\* the map-based IsValid has returned and every goroutine it started is gone
MapSettled ==
    /\ mcall.pc = "done"
    /\ mcall.pending = {} /\ mcall.sending = {}
    /\ (Len(mcall.sets) > 0 /\ Len(mcall.code) \in MinLen..MaxLen) => mcall.closed

LiveUrlLists == { <<"f1", "f2", "f3">>, <<"f3", "f2">> }

LiveCodes == { VALIDABC, NOTEXIST, SHORT }

NextLive ==
    \/ BloomOnly /\ NextSeq
    \/ MapOnly /\ urlLoad.n = 0 /\ UNCHANGED <<mcall, main, scan, lk, lru>>
               /\ \E urls \in LiveUrlLists : LoadFromURLs(urls)
    \/ MapOnly /\ UNCHANGED <<mcall, main, scan, lk, lru>> /\ \E i \in 1..3 : Downloader(i)
    \/ MapOnly /\ UNCHANGED <<mcall, main, scan, lk, lru>> /\ UrlCloser
    \/ MapOnly /\ UNCHANGED <<mcall, main, scan, lk, lru>> /\ UrlCollect
    \/ MapOnly /\ UNCHANGED <<mcall, main, scan, lk, lru>> /\ UrlStore
    \/ MapOnly /\ urlLoad.pc # "loading" /\ (mcall.pc = "idle" \/ MapSettled)
               /\ \E code \in LiveCodes, ctxDone \in BOOLEAN : MapIsValid(code, ctxDone)
    \/ MapOnly /\ \E i \in 1..3 : MapSearch(i)
    \/ MapOnly /\ \E i \in 1..3 : MapSend(i)
    \/ MapOnly /\ MapCloser
    \/ MapOnly /\ MapCount
    \/ MapOnly /\ MapFinish
    \/ MapOnly /\ MapCancelCtx

Fairness ==
    /\ WF_vars(CallThread)
    /\ \A i \in 1..3 : WF_vars(SearchRoutine(i))
    /\ WF_vars(CloserRoutine)
    /\ WF_vars(LoadRoutines)
    /\ WF_vars(MapThread)
    /\ \A i \in 1..3 : WF_vars(MapSearchRoutine(i))
    /\ WF_vars(MapCloserRoutine)

SpecLive == Init /\ [][NextLive]_vars /\ Fairness

(************************* the process entry point *************************)
(* SpecMain: main of cmd/server, in its two versions: the one that loads   *)
(* the coupon sets with LoadFromURLs and the one that loads the Bloom      *)
(* filters with LoadFromFiles, both with context.Background().  The URLs   *)
(* and the paths come from the configuration.  main.router and main.server *)
(* say whether chi.NewRouter and the http.Server have been made.           *)
(***************************************************************************)
\* what main leaves alone in the steps it takes outside the validator
OutsideMain ==
    <<filePaths, bloomFilters, cache, load, calls, nLoads, nLocked, nFailed, prev,
      ops, stats, couponSets, urlLoad, mcall, scan, lk, lru>>

\* os.Exit(code)
Exit(code) == [main EXCEPT !.pc = "exited", !.status = code]

\* config.Load and the logger
MainConfig ==
    /\ main.pc = "start"
    /\ \/ main' = [main EXCEPT !.pc = "configured"]
       \/ main' = Exit(1)
    /\ UNCHANGED OutsideMain

\* coupon.NewValidator and the call of LoadFromURLs
MainLoadFromURLs(urls) ==
    /\ main.pc = "configured"
    /\ main' = [main EXCEPT !.pc = "loading", !.loader = "urls"]
    /\ LoadFromURLs(urls)
    /\ UNCHANGED <<mcall, scan, lk, lru>>

\* coupon.NewValidator and the call of LoadFromFiles
MainLoadFromFiles(paths) ==
    /\ main.pc = "configured"
    /\ main' = [main EXCEPT !.pc = "loading", !.loader = "files"]
    /\ LoadFromFiles(paths, FALSE)
    /\ UNCHANGED <<prev, ops, stats, couponSets, urlLoad, mcall, scan, lk, lru>>

\* the call of main has returned, with this error or with nil
LoadResult ==
    IF main.loader = "urls" THEN urlLoad.pc
    ELSE IF main.loader = "files" THEN load.pc
    ELSE "none"

\* faulty variant: the error of the load is logged and startup goes on
MainLoadedIgnoringError ==
    /\ main.pc = "loading"
    /\ LoadResult \in {"ok", "err"}
    /\ main' = [main EXCEPT !.pc = "loaded"]
    /\ UNCHANGED OutsideMain

\* "if err := ...; err != nil": os.Exit(1), else GetStats and the log line
MainLoaded ==
    /\ main.pc = "loading"
    /\ LoadResult \in {"ok", "err"}
    /\ main' = IF LoadResult = "err" THEN Exit(1) ELSE [main EXCEPT !.pc = "loaded"]
    /\ UNCHANGED OutsideMain

\* the repositories, services and handlers, then chi.NewRouter and the routes
MainRouter ==
    /\ main.pc = "loaded"
    /\ main' = [main EXCEPT !.pc = "routed", !.router = TRUE]
    /\ UNCHANGED OutsideMain

\* the http.Server and the goroutine that calls ListenAndServe
MainServer ==
    /\ main.pc = "routed"
    /\ main' = [main EXCEPT !.pc = "serving", !.server = TRUE]
    /\ UNCHANGED OutsideMain

\* ListenAndServe fails: os.Exit(1)
MainListenFails ==
    /\ main.pc = "serving"
    /\ main' = Exit(1)
    /\ UNCHANGED OutsideMain

\* a signal arrives: srv.Shutdown, os.Exit(1) when it fails
MainQuit ==
    /\ main.pc = "serving"
    /\ \/ main' = Exit(0)
       \/ main' = Exit(1)
    /\ UNCHANGED OutsideMain

\* the process is gone once main has exited
Alive == main.pc # "exited"

NextMain ==
    \/ MainConfig
    \/ \E urls \in UrlLists : MainLoadFromURLs(urls)
    \/ \E paths \in PathLists : MainLoadFromFiles(paths)
    \/ Alive /\ UNCHANGED <<mcall, main, scan, lk, lru>> /\ \E i \in 1..3 : Downloader(i)
    \/ Alive /\ UNCHANGED <<mcall, main, scan, lk, lru>> /\ UrlCloser
    \/ Alive /\ UNCHANGED <<mcall, main, scan, lk, lru>> /\ UrlCollect
    \/ Alive /\ UNCHANGED <<mcall, main, scan, lk, lru>> /\ UrlStore
    \/ Alive /\ UNCHANGED <<prev, aux>> /\ \E i \in 1..3 : Builder(i)
    \/ Alive /\ UNCHANGED <<prev, aux>> /\ LoadCloser
    \/ Alive /\ UNCHANGED <<prev, aux>> /\ LoadCollect
    \/ MainLoaded
    \/ MainRouter
    \/ MainServer
    \/ MainListenFails
    \/ MainQuit

SpecMain == Init /\ [][NextMain]_vars

(****************************** the claims *********************************)
\* the sources are those of one LoadFromFiles call that took the lock, and
\* no LoadFromFiles call has failed after taking it
SingleLoad == nLocked = 1 /\ nFailed = 0

EntriesOf(key) == { i \in 1..Len(cache.order) : cache.order[i].key = key }

\* C1: after one successful load, a call that misses the cache, whose context
\* is not cancelled and whose searches meet no I/O error, returns true exactly
\* when the normalized code has length 8 to 10 and is a trimmed record of at
\* least two of the three files.
C1QuorumDecision ==
    \A c \in Calls :
      LET r == calls[c]
      IN  ( /\ r.pc = "done"
            /\ SingleLoad /\ load.pc = "ok"
            /\ r.how \in {"gate", "reject", "final", "early"}
            /\ ~r.ctxDone /\ ~r.ioErr )
          => r.ret = Quorum(filePaths, Normalize(r.raw))

C1ExactlyTwoIsValid ==
    \E c \in Calls :
      /\ calls[c].pc = "done" /\ calls[c].how \in {"final", "early"}
      /\ SingleLoad /\ load.pc = "ok"
      /\ ~calls[c].ctxDone /\ ~calls[c].ioErr
      /\ calls[c].ret
      /\ Occurrences(filePaths, Normalize(calls[c].raw)) = 2

\* C2: with the sources of a single successful load, whenever IsValid returns
\* true (from the searches or from the cache, with or without cancellations
\* and I/O errors) the normalized code has length 8 to 10 and is a record of
\* at least two files.
C2TrueIsSound ==
    \A c \in Calls :
      (calls[c].pc = "done" /\ calls[c].ret /\ SingleLoad)
      => /\ LengthOK(Normalize(calls[c].raw))
         /\ Occurrences(filePaths, Normalize(calls[c].raw)) >= 2

C2TrueDespiteIOError ==
    \E c \in Calls :
      calls[c].pc = "done" /\ calls[c].ret /\ calls[c].ioErr /\ SingleLoad

\* C3: a call whose normalized input is shorter than 8 or longer than 10 has
\* returned false as soon as it has started, in every state of the validator.
C3LengthGate ==
    \A c \in Calls :
      (calls[c].pc # "idle" /\ ~LengthOK(Normalize(calls[c].raw)))
      => (calls[c].pc = "done" /\ ~calls[c].ret)

C3GateAfterFailedLoad ==
    \E c \in Calls :
      /\ calls[c].pc = "done" /\ ~calls[c].ret
      /\ ~LengthOK(Normalize(calls[c].raw))
      /\ load.pc = "err"
      /\ \E i \in 1..Len(bloomFilters) : bloomFilters[i].nil

\* C4: IsValid never panics.
C4NeverPanics == \A c \in Calls : calls[c].pc # "panic"

\* C5: with the sources of a single successful load, every cache entry holds
\* the quorum status of its code.
C5CacheIntegrity ==
    SingleLoad =>
      \A i \in 1..Len(cache.order) :
        cache.order[i].valid = Quorum(filePaths, cache.order[i].key)

\* C6: the code a call works with is the trimmed, upper-cased input, and it is
\* the same for the lower-cased and for the padded input; a call that went
\* through the cache leaves exactly one entry, under that code, holding the
\* boolean it returns.
C6NormalizationEquivalence ==
    \A c \in Calls :
      LET r == calls[c]
      IN  r.pc # "idle" =>
            /\ r.code = Normalize(r.raw)
            /\ r.code = Normalize(ToLower(r.raw))
            /\ r.code = Normalize(Pad(r.raw))
            /\ (r.pc = "done" /\ r.how \in {"hit", "reject", "final", "early"})
               => /\ Cardinality(EntriesOf(r.code)) = 1
                  /\ cache.order[1].key = r.code
                  /\ cache.order[1].valid = r.ret

C6VariantHitsTheEntry ==
    \E c \in Calls :
      /\ calls[c].pc = "done" /\ calls[c].how = "hit" /\ calls[c].ret
      /\ calls[c].raw # calls[c].code

\* C7: a call that repeats the previous call of a sequential caller, with no
\* operation in between, launches no search and returns what the previous
\* call returned.
C7Idempotence ==
    prev.st = "again" =>
      /\ calls[1].pc \notin {"collect", "drain", "panic"}
      /\ calls[1].pc = "done" =>
           /\ calls[1].ret = prev.ret
           /\ calls[1].how \in {"gate", "hit", "nofilters"}

C7SecondCallHits ==
    /\ prev.st = "again" /\ prev.ret
    /\ calls[1].pc = "done" /\ calls[1].how = "hit"

\* C8: after a successful load, with contexts that are not cancelled and
\* searches that meet no I/O error, no call panics, the calls on the same
\* code that have returned agree on the result (the quorum status of the
\* code), and when they have all returned the cache holds exactly one entry
\* for that code.
AfterLoad(r) == r.pc = "done" /\ r.how \in {"hit", "reject", "final", "early"}

C9AllOrNothing ==
    /\ load.pc = "err" => (filePaths = load.prePaths /\ bloomFilters = load.preFilters)
    /\ ~Locked => \A i, j \in 1..Len(bloomFilters) : bloomFilters[i].nil = bloomFilters[j].nil

\* C10: a LoadFromFiles call with an empty list of paths, or with a path that
\* does not exist, returns an error and changes neither the paths, nor the
\* filters, nor the cache.
C10BadPathsRefused ==
    [][ (nLoads' # nLoads /\ BadPaths(load'.paths))
        => (load'.pc = "err" /\ UNCHANGED <<filePaths, bloomFilters, cache>>) ]_vars

C10MissingPathRefused ==
    /\ load.pc = "err" /\ load.paths # <<>> /\ BadPaths(load.paths)
    /\ filePaths = load.prePaths /\ bloomFilters = load.preFilters

\* the last call made on the lruCache exercised alone
LastOp == ops[Len(ops)]

KeysOf(order) == { order[i].key : i \in 1..Len(order) }

\* C11: whatever Get and Set calls were made, in whatever order they took
\* effect, the cache holds at most capacity entries (and the map and the list
\* hold the same keys, each once), for every capacity from 1 up.
C11SizeWithinCapacity ==
    /\ Len(cache.order) <= cache.capacity
    /\ Cardinality(cache.items) = Len(cache.order)
    /\ KeysOf(cache.order) = cache.items

C11SetIntoFullCache ==
    /\ ops # <<>>
    /\ LastOp.kind = "set" /\ ~LastOp.found
    /\ Len(LastOp.before.order) = cache.capacity
    /\ cache.capacity = MaxCapacity
    /\ Len(cache.order) = cache.capacity

\* the cache left by the n-th call
AfterOp(n) == IF n < Len(ops) THEN ops[n + 1].before ELSE cache

\* the last of the first n calls that named the key (0: none did)
LastMention(key, n) ==
    LET js == { j \in 1..n : ops[j].key = key }
    IN  IF js = {} THEN 0 ELSE CHOOSE j \in js : \A i \in js : i <= j

\* of the keys the n-th call found in the cache, the least recently accessed
LeastRecent(n) ==
    CHOOSE k \in ops[n].before.items :
      \A k2 \in ops[n].before.items : LastMention(k, n - 1) <= LastMention(k2, n - 1)

\* the n-th call is a Set of a key that is not cached, on a full cache
Evicting(n) ==
    /\ ops[n].kind = "set"
    /\ ops[n].key \notin ops[n].before.items
    /\ Len(ops[n].before.order) = ops[n].before.capacity

ValueIn(c, key) == c.order[CHOOSE i \in 1..Len(c.order) : c.order[i].key = key].valid

\* C12: a Set of a new key on a full cache removes exactly one entry, the one
\* least recently accessed by Get or Set; a Get of that key then misses (until
\* the key is set again), and every other key that was cached still hits with
\* its value; C+1 distinct keys set into an empty cache evict the first one.
C12EvictsLeastRecent ==
    /\ \A n \in 1..Len(ops) :
         Evicting(n) =>
           LET before == ops[n].before
               after == AfterOp(n)
               victim == LeastRecent(n)
           IN  /\ after.items = (before.items \ {victim}) \cup {ops[n].key}
               /\ Len(after.order) = Len(before.order)
               /\ ~Get(after, victim).found
               /\ \A k \in before.items \ {victim} :
                    /\ Get(after, k).found
                    /\ Get(after, k).valid = ValueIn(before, k)
               /\ \A m \in (n + 1)..Len(ops) :
                    ( /\ ops[m].kind = "get" /\ ops[m].key = victim
                      /\ \A j \in (n + 1)..(m - 1) : ops[j].key # victim )
                    => ~ops[m].found
    /\ ( /\ Len(ops) = cache.capacity + 1
         /\ \A i \in 1..Len(ops) : ops[i].kind = "set"
         /\ \A i, j \in 1..Len(ops) : i # j => ops[i].key # ops[j].key )
       => cache.items = { ops[i].key : i \in 2..Len(ops) }

C12EvictsRefreshedLast ==
    /\ Len(ops) = 4 /\ cache.capacity = 2
    /\ ops[1].kind = "set" /\ ops[2].kind = "set"
    /\ ops[3].kind = "get" /\ ops[3].found /\ ops[3].key = ops[1].key
    /\ Evicting(4)
    /\ LeastRecent(4) = ops[2].key
    /\ cache.items = {ops[1].key, ops[4].key}

\* the list without the element of the key
Without(order, key) ==
    LET keep(e) == e.key # key
    IN  SelectSeq(order, keep)

\* the n-th call is a Set of a key that is cached
Updating(n) == ops[n].kind = "set" /\ ops[n].key \in ops[n].before.items

\* C13: a Set of a cached key leaves the list with that key in front, holding
\* the new value, followed by the other entries as they were, values and
\* order; nothing is evicted and the size and the capacity are unchanged,
\* also when the cache is full.
C13UpdateInPlace ==
    \A n \in 1..Len(ops) :
      Updating(n) =>
        LET before == ops[n].before
            after == AfterOp(n)
        IN  /\ after.order = <<[key |-> ops[n].key, valid |-> ops[n].valid]>>
                                \o Without(before.order, ops[n].key)
            /\ Len(after.order) = Len(before.order)
            /\ after.items = before.items
            /\ after.capacity = before.capacity

C13UpdateOldestOfFullCache ==
    /\ ops # <<>>
    /\ Updating(Len(ops))
    /\ LET before == LastOp.before
       IN  /\ before.capacity = MaxCapacity
           /\ Len(before.order) = before.capacity
           /\ before.order[Len(before.order)].key = LastOp.key
           /\ before.order[Len(before.order)].valid # LastOp.valid
    /\ cache.order[1] = [key |-> LastOp.key, valid |-> LastOp.valid]

\* C14: after a successful load, the filter of every source tests positive
\* on every non-empty trimmed record of that source; so the pre-check
\* rejects only codes that are in fewer than two sources, and a call that
\* passed it has every source holding its code among its candidates.
C14NoFalseNegatives ==
    /\ load.pc = "ok" =>
         \A i \in 1..Len(filePaths) :
           /\ ~bloomFilters[i].nil
           /\ \A rec \in Records(filePaths[i]) \ {<<>>} : TestString(bloomFilters[i], rec)
    /\ (SingleLoad /\ load.pc = "ok") =>
         \A c \in Calls :
           /\ (calls[c].pc = "reject" \/ (calls[c].pc = "done" /\ calls[c].how = "reject"))
              => Occurrences(filePaths, calls[c].code) < MinFiles
           /\ calls[c].pc = "collect"
              => { i \in 1..Len(filePaths) : calls[c].code \in Records(filePaths[i]) }
                   \subseteq calls[c].possibleFiles

C14PaddedRecordIsCandidate ==
    \E c \in Calls :
      /\ SingleLoad /\ load.pc = "ok"
      /\ calls[c].pc = "collect"
      /\ Occurrences(filePaths, calls[c].code) = 2
      /\ \E i \in calls[c].possibleFiles :
           \E j \in 1..Len(Lines(filePaths[i])) :
             /\ Lines(filePaths[i])[j] # calls[c].code
             /\ TrimSpace(Lines(filePaths[i])[j]) = calls[c].code

\* C15: the step that counts the second confirmation of a call raises the
\* cancellation of its searches; from then on the searches of the call see
\* their context done, nothing is counted any more, and the call can only
\* return true, having stored true in the cache under its code, whatever
\* the searches still in flight produce.
C15EarlyTermination ==
    [][ \A c \in Calls :
          /\ ( /\ calls[c].pc = "collect"
               /\ calls'[c].pc # "done"
               /\ calls'[c].filesWithCoupon >= MinFiles )
             => (calls'[c].pc = "drain" /\ calls'[c].cancelled)
          /\ calls[c].pc = "drain"
             => \/ /\ calls'[c].pc = "drain"
                   /\ SearchCtxDone(calls'[c])
                   /\ calls'[c].filesWithCoupon = calls[c].filesWithCoupon
                \/ /\ calls'[c].pc = "done"
                   /\ calls'[c].ret /\ calls'[c].how = "early"
                   /\ cache'.order # <<>>
                   /\ cache'.order[1] = [key |-> calls[c].code, valid |-> TRUE] ]_vars

C15LateErrorIsDiscarded ==
    \E c \in Calls :
      /\ calls[c].pc = "drain" /\ calls[c].closed
      /\ ~calls[c].ctxDone
      /\ \E i \in 1..Len(calls[c].resultsCh) : calls[c].resultsCh[i].err = "ctx"

\* the filters a load of the paths builds when nothing fails
BuiltFilters(paths) ==
    [i \in 1..Len(paths) |-> buildBloomFilter(Lines(paths[i]), 0, 0).filter]

\* C16: the paths and the filters that an IsValid call reads under v.mu are
\* those of the new validator or those of one completed load: one filter per
\* path, each populated from its path.
C16SnapshotOfCompletedLoad ==
    [][ \A c \in Calls :
          (calls[c].pc = "filters" /\ calls'[c].pc # "filters")
          => \/ filePaths = <<>> /\ bloomFilters = <<>>
             \/ bloomFilters = BuiltFilters(filePaths) ]_vars

\* C17: a LoadFromFiles call whose context was cancelled before the call, or
\* while its builders were streaming the files, returns an error.
C17CancelledLoadFails ==
    [][ ( /\ load.pc = "building"
          /\ load.ctxAt \in {"before", "streaming"}
          /\ load'.pc # "building" )
        => load'.pc = "err" ]_vars

\* C18: a GetStats call changes neither the paths, nor the filters, nor the
\* entries of the cache, nor their order, nor the state of the IsValid and
\* LoadFromFiles calls in progress.
C18GetStatsReadOnly ==
    [][ (stats.pc = "idle" /\ stats'.pc = "returned")
        => UNCHANGED <<filePaths, bloomFilters, cache, load, calls>> ]_vars

C18StatsDuringIsValid ==
    /\ stats.pc = "returned"
    /\ stats.cache_size = CacheCapacity
    /\ cache.order # <<>>
    /\ calls[1].pc \in {"collect", "drain"}
    /\ calls[1].resultsCh # <<>>

\* C19: GetStats reports no file on a validator that has loaded nothing; after
\* a successful load it reports the number of paths of that load and the paths
\* in the order given; it reports the number of entries the cache holds and
\* its capacity, and the first is never greater than the second.
C19StatsValues ==
    [][ (stats.pc = "idle" /\ stats'.pc = "returned")
        => /\ nLocked = 0 => (stats'.total_files = 0 /\ stats'.file_paths = <<>>)
           /\ load.pc = "ok" => /\ stats'.total_files = Len(load.paths)
                                /\ stats'.file_paths = load.paths
                                /\ stats'.bloom_filters_loaded = Len(load.paths)
           /\ stats'.cache_size = Len(cache.order)
           /\ stats'.cache_size = Cardinality(cache.items)
           /\ stats'.cache_capacity = cache.capacity
           /\ stats'.cache_size <= stats'.cache_capacity ]_vars

C19StatsAfterLoad ==
    /\ stats.pc = "returned"
    /\ load.pc = "ok"
    /\ stats.total_files = 3
    /\ stats.file_paths = <<"f1", "f2", "f3">>
    /\ stats.cache_size = 0
    /\ stats.cache_capacity = CacheCapacity

\* the distinct non-empty trimmed records served at each URL
SetsOf(urls) == [i \in 1..Len(urls) |-> Records(urls[i]) \ {<<>>}]

\* C20: while LoadFromURLs runs, and after it has returned an error,
\* couponSets is what it was before the call; it returns an error when no URL
\* is given and when a download or a parse failed; when it returns nil,
\* couponSets[i] is the set of the distinct non-empty trimmed records of
\* urls[i] for every i, in whatever order the downloads completed.
C20LoadFromURLsAllOrNothing ==
    /\ urlLoad.pc \in {"loading", "err"} => couponSets = urlLoad.pre
    /\ (urlLoad.pc # "loading" /\ urlLoad.n > 0 /\ urlLoad.urls = <<>>) => urlLoad.pc = "err"
    /\ (urlLoad.pc # "loading" /\ \E i \in 1..Len(urlLoad.results) :
                                     urlLoad.results[i].err # "none")
       => urlLoad.pc = "err"
    /\ urlLoad.pc = "ok" => couponSets = SetsOf(urlLoad.urls)

C20ReloadCompletedOutOfOrder ==
    /\ urlLoad.pc = "ok"
    /\ urlLoad.pre # <<>> /\ urlLoad.pre # couponSets
    /\ urlLoad.arrived = <<3, 1, 2>>
    /\ couponSets = SetsOf(<<"f1", "f2", "f3">>)

\* the sets of the call that hold its code
MapOccurrences == { i \in 1..Len(mcall.sets) : mcall.code \in mcall.sets[i] }

\* C21: with a context that is not cancelled, the map-based IsValid returns
\* true exactly when the code has 8 to 10 characters and is in at least two
\* of the loaded sets, whatever the order of the search goroutines and of
\* the early return; with no set loaded it returns false.
C21MapIsValid ==
    (mcall.pc = "done" /\ ~mcall.ctxDone) =>
        /\ mcall.ret = (/\ Len(mcall.code) \in MinLen..MaxLen
                        /\ Cardinality(MapOccurrences) >= 2)
        /\ (Len(mcall.sets) = 0 => ~mcall.ret)

\* a call on three sets that all hold the code returned true at the second
\* match while a search goroutine was still running
C21EarlyReturnOnThreeSets ==
    /\ mcall.pc = "done"
    /\ ~mcall.ctxDone
    /\ mcall.ret
    /\ Cardinality(MapOccurrences) = 3
    /\ mcall.left # {}

\* a call with a code of five characters that two sets hold returned false
C21ShortCodeInTwoSets ==
    /\ mcall.pc = "done"
    /\ ~mcall.ret
    /\ Len(mcall.code) < MinLen
    /\ Cardinality(MapOccurrences) = 2

\* C22: main never makes the router or the server, and never serves, unless
\* the coupon load returned nil; when the load returns an error main does
\* nothing but exit with status 1, with no router and no server made.
C22NoServingWithoutLoad ==
    /\ (main.router \/ main.server \/ main.pc \in {"loaded", "routed", "serving"})
          => LoadResult = "ok"
    /\ LoadResult = "err" =>
          /\ main.pc \in {"loading", "exited"}
          /\ main.pc = "exited" => (main.status # 0 /\ ~main.router /\ ~main.server)

\* main has exited with status 1 after a load that failed in one of its
\* downloads
C22ExitAfterFailedDownload ==
    /\ main.pc = "exited"
    /\ main.status = 1
    /\ main.loader = "urls"
    /\ urlLoad.pc = "err"
    /\ urlLoad.urls # <<>>

\* C23: when fewer than two of the loaded filters test positive on the
\* normalized code, the call launches no search (it opens no file); its next
\* step stores false in the cache under that code and returns false.
C23QuorumPrecheck ==
    [][ \A c \in Calls :
          /\ ( /\ calls[c].pc = "filters" /\ calls'[c].pc # "filters"
               /\ Len(bloomFilters) > 0
               /\ \A i \in 1..Len(bloomFilters) : ~bloomFilters[i].nil
               /\ Cardinality(PossibleFiles(bloomFilters, calls[c].code)) < MinFiles )
             => /\ calls'[c].pc = "reject"
                /\ calls'[c].running = {}
                /\ calls'[c].resultsCh = <<>>
          /\ calls[c].pc = "reject"
             => \/ calls'[c] = calls[c]
                \/ /\ calls'[c].pc = "done"
                   /\ ~calls'[c].ret /\ calls'[c].how = "reject"
                   /\ cache'.order # <<>>
                   /\ cache'.order[1] = [key |-> calls[c].code, valid |-> FALSE] ]_vars

\* a code of valid length that one filter only tests positive on was
\* rejected, and false is in the cache under it
C23OneCandidateRejected ==
    \E c \in Calls :
      /\ calls[c].pc = "done" /\ calls[c].how = "reject" /\ ~calls[c].ret
      /\ load.pc = "ok"
      /\ Cardinality(PossibleFiles(bloomFilters, calls[c].code)) = 1
      /\ cache.order # <<>>
      /\ cache.order[1] = [key |-> calls[c].code, valid |-> FALSE]

\* the candidates of a call whose search has run
Scanned(r) == r.possibleFiles \ r.running

\* the lines of a file that are the code once trimmed
LinesWith(path, code) ==
    { j \in 1..Len(Lines(path)) : TrimSpace(Lines(path)[j]) = code }

\* C24: the confirm phase launches one search per source whose filter
\* tested positive and none on the others; no source is searched twice,
\* each search delivers at most one result, and the confirmed count is at
\* most the number of candidates searched, so at most 3, also when a file
\* holds the code on several lines.
C24OneScanPerCandidate ==
    [][ \A c \in Calls :
          /\ (calls[c].pc = "filters" /\ calls'[c].pc = "collect")
             => /\ calls'[c].possibleFiles = PossibleFiles(bloomFilters, calls[c].code)
                /\ calls'[c].running = calls'[c].possibleFiles
                /\ calls'[c].scans = <<0, 0, 0>>
          /\ calls'[c].pc \in {"collect", "drain"}
             => LET r == calls'[c]
                IN  /\ r.running \subseteq r.possibleFiles
                    /\ \A i \in 1..3 : r.scans[i] = IF i \in Scanned(r) THEN 1 ELSE 0
                    /\ r.closed => Scanned(r) = r.possibleFiles
                    /\ r.filesWithCoupon + Len(r.resultsCh) <= Cardinality(Scanned(r))
                    /\ r.filesWithCoupon <= Cardinality(r.possibleFiles)
                    /\ Cardinality(r.possibleFiles) <= 3 ]_vars

\* every search of a call has run, one of them on a file that holds the code
\* on two lines, and the confirmed count is 1 with one result still to read
C24CodeOnTwoLines ==
    \E c \in Calls :
      LET r == calls[c]
      IN  /\ r.pc = "collect" /\ r.closed
          /\ ~r.ctxDone /\ ~r.ioErr
          /\ Cardinality(r.possibleFiles) = 2
          /\ \E i \in r.possibleFiles : Cardinality(LinesWith(r.paths[i], r.code)) = 2
          /\ r.filesWithCoupon = 1
          /\ Len(r.resultsCh) = 1

\* the candidates of a call whose file holds the code
Holding(r) == { i \in r.possibleFiles : r.code \in Records(r.paths[i]) }

C26ReturnsWithoutWaiting ==
    \A c \in Calls :
      (calls[c].pc = "drain" /\ calls[c].cancelled /\ calls[c].running # {})
      => ENABLED IsValidDrain(c)

\* C27: a search that ends on an I/O error or on a cancellation delivers a
\* result with that error, which differs from not-found (no error, not
\* found), and never one with found; reading a result adds 1 to the
\* confirmed count exactly when it has found and no error; and the call goes
\* on to return true or false, never anything else.
C27ErrorsAreNotConfirmations ==
    [][ \A c \in Calls :
          /\ \A k \in 1..Len(calls'[c].resultsCh) :
               LET res == calls'[c].resultsCh[k]
               IN  /\ res.err \in {"none", "io", "ctx"}
                   /\ res.err # "none" => ~res.found
          /\ (calls[c].pc \in {"collect", "drain"} /\ calls'[c].pc \in {"collect", "drain"})
             => IF Len(calls'[c].resultsCh) < Len(calls[c].resultsCh)
                THEN LET res == Head(calls[c].resultsCh)
                     IN  /\ calls'[c].resultsCh = Tail(calls[c].resultsCh)
                         /\ calls'[c].filesWithCoupon =
                              calls[c].filesWithCoupon +
                                (IF res.found /\ res.err = "none" THEN 1 ELSE 0)
                ELSE calls'[c].filesWithCoupon = calls[c].filesWithCoupon
          /\ calls[c].pc \in {"collect", "drain"}
             => /\ calls'[c].pc \in {"collect", "drain", "done"}
                /\ calls'[c].pc = "done" => calls'[c].ret \in BOOLEAN ]_vars

\* a call has read the results of a search that failed and of a search that
\* was cancelled, has counted one confirmation, and is about to return
C27FailedAndCancelledSearches ==
    \E c \in Calls :
      LET r == calls[c]
      IN  /\ r.pc = "collect" /\ r.closed /\ r.resultsCh = <<>>
          /\ r.ioErr /\ r.ctxDone
          /\ Cardinality(r.possibleFiles) = 3
          /\ r.filesWithCoupon = 1

\* C28: once ctx is cancelled, a run of searchFileForCoupon takes at most
\* one more record from the file, whatever the length of the file; if it
\* has taken one it returns the cancellation, and it never returns found
\* for a record taken after the cancellation.
C28ScanCancellationResponsive ==
    scan.done =>
      /\ scan.read <= scan.raisedAt + 1
      /\ (scan.pc = "returned" /\ scan.read > scan.raisedAt)
         => (scan.err = "ctx" /\ ~scan.found)
      /\ (scan.pc = "returned" /\ scan.found) => scan.read <= scan.raisedAt

\* a run cancelled at its first record, in a file whose second record is the
\* code, has returned the cancellation after taking that record
C28CancelledBeforeTheMatch ==
    /\ scan.pc = "returned" /\ scan.err = "ctx"
    /\ scan.raisedAt = 1 /\ scan.read = 2
    /\ Len(Lines(scan.path)) > 2
    /\ TrimSpace(Lines(scan.path)[2]) = scan.code

\* the records of a file, trimmed and in upper case as the input code is
NormalizedRecords(path) == { Normalize(Lines(path)[j]) : j \in 1..Len(Lines(path)) }

\* C29: the records are normalized as the input code is (trimmed, upper
\* case): after a successful load the filter of a source tests positive on
\* every normalized record of it, and a call that misses the cache, with no
\* cancellation and no I/O error, returns true exactly when the code has 8
\* to 10 characters and is the normalized form of a record in at least two
\* sources.
C29RecordsNormalizedAsInput ==
    (SingleLoad /\ load.pc = "ok") =>
      /\ \A i \in 1..Len(filePaths) :
           \A rec \in NormalizedRecords(filePaths[i]) \ {<<>>} :
             TestString(bloomFilters[i], rec)
      /\ \A c \in Calls :
           LET r == calls[c]
           IN  ( /\ r.pc = "done" /\ r.how \in {"reject", "final", "early"}
                 /\ ~r.ctxDone /\ ~r.ioErr )
               => r.ret = ( /\ LengthOK(r.code)
                            /\ Cardinality({ i \in 1..Len(filePaths) :
                                   r.code \in NormalizedRecords(filePaths[i]) }) >= MinFiles )

\* C30: a call whose normalized code the length gate rejects returns in its
\* first step, which leaves the cache (its entries and their order) and the
\* fields of the validator as they are; the call never reaches the read of
\* the fields under v.mu, tests no filter and launches no search.
C30LengthGateFrame ==
    [][ \A c \in Calls :
          ( /\ calls[c].pc = "idle" /\ calls'[c].pc # "idle"
            /\ LengthGate(Normalize(calls'[c].raw)) )
          => /\ calls'[c] = Returned(calls'[c], FALSE, "gate")
             /\ cache' = cache
             /\ filePaths' = filePaths
             /\ bloomFilters' = bloomFilters
             /\ load' = load
             /\ \A d \in Calls \ {c} : calls'[d] = calls[d] ]_vars

\* a call was rejected by the length gate while the filters were loaded and
\* the cache held an entry
C30GateWithEntryInCache ==
    \E c \in Calls :
      /\ calls[c].pc = "done" /\ calls[c].how = "gate"
      /\ load.pc = "ok"
      /\ cache.order # <<>>

\* C31: a call that has passed the length gate, missed the cache and found
\* filters loaded writes the cache in one step only, the step in which it
\* returns: after that step the cache holds one entry for the normalized
\* code, with the boolean the call returns, whether the call was rejected by
\* the pre-check or decided in the confirm phase.
C31OneEntryPerValidation ==
    [][ \A c \in Calls :
          /\ (calls[c].pc \in {"reject", "collect", "drain"} /\ calls'[c].pc = "done")
             => /\ cache'.order # <<>>
                /\ cache'.order[1] = [key |-> calls[c].code, valid |-> calls'[c].ret]
                /\ Cardinality({ i \in 1..Len(cache'.order) :
                                   cache'.order[i].key = calls[c].code }) = 1
          /\ ( /\ calls[c].pc \in {"filters", "reject", "collect", "drain"}
               /\ calls'[c] # calls[c]
               /\ ~(calls[c].pc # "filters" /\ calls'[c].pc = "done") )
             => cache' = cache ]_vars

\* the confirm phase of a call has decided against a code that one of its
\* two candidates holds, and false is in the cache under the code
C31NegativeDecisionStored ==
    \E c \in Calls :
      /\ calls[c].pc = "done" /\ calls[c].how = "final"
      /\ ~calls[c].ret /\ ~calls[c].ioErr /\ ~calls[c].ctxDone
      /\ SingleLoad /\ load.pc = "ok"
      /\ Occurrences(filePaths, calls[c].code) = 1
      /\ cache.order # <<>>
      /\ cache.order[1] = [key |-> calls[c].code, valid |-> FALSE]

\* the n-th call is a Get that found its key
Hit(n) == ops[n].kind = "get" /\ ops[n].found

\* C32: a Get that hits leaves the entries and their values as they are
\* and moves its key to the front, the others keeping their order; the key
\* of an entry whose last access is a Get later than the last access of
\* every other entry survives the next eviction (capacity 2 or more); a Get
\* that misses leaves the entries and their order as they are.
C32RecencyCountsReads ==
    /\ \A n \in 1..Len(ops) :
         ops[n].kind = "get" =>
           LET before == ops[n].before
               after == AfterOp(n)
           IN  IF ops[n].key \in before.items
               THEN /\ ops[n].found
                    /\ ops[n].valid = ValueIn(before, ops[n].key)
                    /\ after.items = before.items
                    /\ after.order[1] = before.order[IndexOf(before.order, ops[n].key)]
                    /\ Without(after.order, ops[n].key) = Without(before.order, ops[n].key)
               ELSE /\ ~ops[n].found
                    /\ after = before
    /\ \A m \in 1..Len(ops) :
         Evicting(m) =>
           \A k \in ops[m].before.items :
             LET n == LastMention(k, m - 1)
             IN  ( /\ n > 0 /\ Hit(n)
                   /\ Cardinality(ops[m].before.items) >= 2
                   /\ \A k2 \in ops[m].before.items \ {k} : LastMention(k2, m - 1) < n )
                 => k \in AfterOp(m).items

\* a Get found the key at the back of a full cache of two entries, and the
\* Set of a third key that followed evicted the other entry
C32ReadKeySurvivesEviction ==
    /\ Len(ops) = 4
    /\ Hit(3)
    /\ Len(ops[3].before.order) = 2
    /\ ops[3].before.order[2].key = ops[3].key
    /\ Evicting(4)
    /\ cache.order[2].key = ops[3].key
    /\ ops[3].before.order[1].key \notin cache.items

\* C33: when LoadFromFiles has returned, with nil or with an error, none of
\* the builders it launched is still running.
C33LoadWaitsForBuilders ==
    load.pc \in {"ok", "err"} => load.pending = {}

\* the searches of the call that are still to send, and the room in its channel
Room(r) == Cardinality(r.possibleFiles) - Len(r.resultsCh)

\* C34: under fair scheduling every IsValid call that is in progress comes
\* to its end, in both versions of the validator; the channel of a call has
\* room for the result of every search still running, so no send blocks;
\* and once the map-based IsValid has returned, the goroutines it left
\* running finish and the channel is closed.
C34IsValidTerminates ==
    /\ (calls[1].pc \in {"filters", "reject", "collect", "drain"})
          ~> (calls[1].pc \in {"done", "panic"})
    /\ (mcall.pc = "searching") ~> (mcall.pc = "done")
    /\ [](calls[1].pc \in {"collect", "drain"}
            => Cardinality(calls[1].running) <= Room(calls[1]))
    /\ [](mcall.pc \in {"searching", "done"}
            => mcall.foundChan + Cardinality(mcall.pending \cup mcall.sending)
                 <= Len(mcall.sets))
    /\ (mcall.pc = "done") ~> MapSettled
    /\ [](calls[1].pc = "done" => calls[1].running = {})

\* the map-based IsValid returned true at the second value while a search
\* goroutine was still running, and that goroutine and the closer have ended
C34EarlyReturnSettles ==
    /\ MapSettled
    /\ mcall.ret
    /\ mcall.left # {}

\* the second LoadFromFiles has returned nil, and it replaced the files of a
\* complete load by other files
Reloaded ==
    /\ nLoads = MaxReloads
    /\ load.pc = "ok"
    /\ load.prePaths # <<>> /\ load.prePaths # filePaths
    /\ \A i \in 1..Len(load.preFilters) : load.preFilters[i] # NilFilter

\* C35: after a reload with other files, a call that started after the
\* reload and has returned has returned the quorum status of its code in
\* the new files.
C35ReloadedDataDecides ==
    (Reloaded /\ calls[1].pc = "done")
       => (calls[1].ret <=> Quorum(filePaths, calls[1].code))

\* C36: a call that finds no filters returns false and leaves the cache as
\* it is; so while no filters are loaded the cache holds nothing, and no
\* call made after the first load is answered with a false stored before it.
C36NoFiltersNoCacheWrite ==
    /\ [][ \A c \in Calls :
             (calls[c].pc = "filters" /\ calls'[c].pc # "filters" /\ Len(bloomFilters) = 0)
             => /\ calls'[c].pc = "done" /\ ~calls'[c].ret
                /\ cache' = cache ]_vars
    /\ [](Len(bloomFilters) = 0 => cache.order = <<>>)

\* a call for a code that is in every file has returned false for want of
\* filters, and the cache is still empty
C36ValidCodeBeforeLoad ==
    /\ calls[1].pc = "done" /\ calls[1].how = "nofilters"
    /\ calls[1].code = VALIDABC
    /\ ~calls[1].ret
    /\ cache.order = <<>>

\* the mutexes goroutine t holds
Holds(t) ==
    {m \in {"mu", "cmu"} : lk[m].w = t \/ t \in lk[m].r}

\* the mutex goroutine t waits for
Wants(t) ==
    IF lk.pc[t] \in {"muRLock", "muLock"} THEN {"mu"}
    ELSE IF lk.pc[t] \in {"getLock", "setLock", "cacheRLock"} THEN {"cmu"}
    ELSE {}

\* C37: whenever a call is in progress some call in progress can take a
\* step; v.mu is never waited for by a goroutine that holds cache.mu (the
\* locks are only nested as v.mu, then cache.mu); and a caller of IsValid
\* holds no mutex while it searches the files and collects the results.
C37NoDeadlock ==
    /\ (\E t \in Threads : lk.pc[t] # "idle") => ENABLED LockSteps
    /\ \A t \in Threads : "cmu" \in Holds(t) => "mu" \notin Wants(t)
    /\ \A t \in Callers : lk.pc[t] = "scanning" => Holds(t) = {}

\* LoadFromFiles waits for v.mu, which GetStats holds while it waits for
\* cache.mu, which one caller of IsValid holds while the other searches
C37AllLocksContended ==
    /\ lk.pc["load"] = "muLock"
    /\ lk.pc["stats"] = "cacheRLock" /\ "mu" \in Holds("stats")
    /\ \E t \in Callers : "cmu" \in Holds(t)
    /\ \E t \in Callers : lk.pc[t] = "scanning"

\* the keys carried by the elements of the list
ListedKeys == { lru.value[lru.order[i]].key : i \in 1..Len(lru.order) }

\* C38: the map and the list hold the same keys; no two elements of the
\* list carry the same key; and the map entry of a key is an element of the
\* list, the one that carries that key.
C38MapAndListAgree ==
    /\ DOMAIN lru.items = ListedKeys
    /\ \A i, j \in 1..Len(lru.order) :
         lru.value[lru.order[i]].key = lru.value[lru.order[j]].key => i = j
    /\ \A k \in DOMAIN lru.items :
         /\ InList(lru.order, lru.items[k])
         /\ lru.value[lru.items[k]].key = k

\* a full cache of two after evictions, in which the older element has been
\* moved in front of the newer one
C38FullAfterEvictionAndMove ==
    /\ lru.capacity = MaxCapacity
    /\ Len(lru.order) = lru.capacity
    /\ lru.next > MaxCapacity + 2
    /\ lru.order[1] < lru.order[2]

====
